---- MODULE Spec2Model ----
(***************************************************************************)
(* A model of myriam's actor runtime.                                      *)
(*                                                                         *)
(* Local actors (src/src/actors/local.rs): the worker task spawned by      *)
(* local::spawn owns the receiving end of a bounded mpsc mailbox; every    *)
(* LocalHandle is a clone of the sending end.  Each LocalHandle::send      *)
(* creates its own oneshot reply channel (a "slot"), enqueues              *)
(* (msg, slot sender) and awaits the slot receiver.                        *)
(*                                                                         *)
(* Untyped bridges (src/src/actors/remote.rs): spawn_untyped wraps an       *)
(* actor behind a worker that decodes request bytes, validates them        *)
(* against the flags sent along, forwards them through its own LocalHandle *)
(* and encodes the result.                                                 *)
(*                                                                         *)
(* Router (src/src/actors/remote/router.rs): a control loop that applies   *)
(* attach / revoke / stop commands to a peer table and accepts             *)
(* connections; one worker per connection reads the request frame, looks   *)
(* the peer id up, passes the body to the bridge and writes the reply.     *)
(*                                                                         *)
(* Spec is the local runtime: an actor and the clients that hold its       *)
(* handles.  SpecRouter is a router in front of a bridged actor, an        *)
(* administrator that holds the RouterHandle, and remote clients.          *)
(* SpecBridge is a bridged actor with the holders of its UntypedHandle and *)
(* of its LocalHandle.  SpecRouterStop is a router in front of a bridge    *)
(* that relays Stop and an actor whose handlers may panic.                 *)
(***************************************************************************)
EXTENDS Integers, Sequences, FiniteSets, TLC

(* ------------------------------ bounds -------------------------------- *)

\* number of LocalHandle clones held by concurrent senders
NumClients == 2
\* total number of LocalHandle::send calls over a behaviour (one slot each)
MaxSends == 2
\* capacity of an actor's mailbox: mpsc::channel(1024) in the source, scaled
MailboxCap == 2
\* number of sends made to an actor that falls behind: one more than its
\* mailbox holds
BurstSends == MailboxCap + 1

\* number of connections made by remote clients (one request each)
MaxReqs == 2
\* number of commands the administrator issues through the RouterHandle
MaxCmds == 2
\* RouterOpts::max_msg_size: 4194304 by default in the source, scaled
MaxMsgSize == 2

Clients == 1..NumClients
Reqs == 1..MaxReqs
Cmds == 1..MaxCmds
Slots == 1..(IF BurstSends > MaxSends THEN BurstSends ELSE MaxSends)
\* actors; actor b is the one wrapped by bridge b
Actors == {1}
\* the value domains of the type parameters I, O and E, and of the actor
Inputs == {1}
Outputs == {1}
Errors == {1}
ActorStates == {0, 1}

\* whoever calls LocalHandle::send: a client, or the worker of bridge b
BridgeSender(b) == NumClients + b
Senders == Clients \cup {BridgeSender(b) : b \in Actors}
\* the actor a sender's handle points to
TargetOf(c) == IF c \in Clients THEN 1 ELSE c - NumClients

(* ------------------------- messages and replies ----------------------- *)

\* Message<I>: Task(I) | TaskMut(I) | Ping | Stop
Task(x) == <<"Task", x>>
TaskMut(x) == <<"TaskMut", x>>
Ping == <<"Ping", 0>>
Stop == <<"Stop", 0>>
NoMsg == <<"NoMsg", 0>>
Message == {Task(x) : x \in Inputs} \cup {TaskMut(x) : x \in Inputs} \cup {Ping, Stop}

\* MsgResult<O,E> = Result<Reply<O>, MsgError<E>>
OkAccepted == <<"Ok", "Accepted", 0>>
OkTask(y) == <<"Ok", "Task", y>>
ErrTask(e) == <<"Err", "Task", e>>
ErrSend == <<"Err", "Send", 0>>
ErrRecv == <<"Err", "Recv", 0>>
ErrNotAllowed == <<"Err", "NotAllowed", 0>>
NoResult == <<"None", "None", 0>>

\* what a user handler can return:
\*   handler:     Result<O, E>          Ok(y) | Err(e)
\*   handler_mut: Result<Option<O>, E>  Ok(Some(o)) | Ok(None) | Err(e)
HOk(y) == <<"Ok", y>>
HSome(o) == <<"OkSome", o>>
HNone == <<"OkNone", 0>>
HErr(e) == <<"Err", e>>
NoReturn == <<"NoReturn", 0>>
HandlerReturns == {HOk(y) : y \in Outputs} \cup {HErr(e) : e \in Errors}
HandlerMutReturns ==
    {HSome(o) : o \in Outputs} \cup {HNone} \cup {HErr(e) : e \in Errors}

\* variant of TaskReply: the handler's error is reported as a task output
TaskReplyErrAsOk(h) == OkTask(h[2])

\* local.rs 32-35: the reply built from the read-only handler's return value
TaskReply(h) ==
    IF h[1] = "Ok" THEN OkTask(h[2]) ELSE ErrTask(h[2])

\* variant of TaskMutReply: Ok(None) is reported as a task output
TaskMutReplyNoneAsTask(h) ==
    IF h[1] = "Err" THEN ErrTask(h[2]) ELSE OkTask(h[2])

\* local.rs 40-44: the reply built from the mutating handler's return value
TaskMutReply(h) ==
    IF h[1] = "OkSome" THEN OkTask(h[2])
    ELSE IF h[1] = "OkNone" THEN OkAccepted
    ELSE ErrTask(h[2])

(* ------------------------------- state -------------------------------- *)

VARIABLES
    actor,      \* per actor: its worker, mailbox and history (see NewActor)
    slots,      \* per LocalHandle::send call: message, oneshot, outcomes
    nextSlot,   \* next unused slot id
    sender,     \* per sender: [pc, slot] of its current LocalHandle::send
    bridge,     \* per bridge: its worker and mailbox (see NewBridge)
    uhandle,    \* per bridge: the UntypedHandle spawn_untyped returned
    breq,       \* per UntypedHandle::send call: bytes, flags, oneshot
    router,     \* the router's control loop, peer table and listener
    cmds,       \* per RouterHandle call: the command and its oneshot
    admin,      \* the holder of the RouterHandle
    conns,      \* per connection: client side, stream and worker
    swarm,      \* the libp2p actor: its task, its swarm loop and its requests
    address,    \* an ActorAddress being formatted and parsed
    wire        \* one exchange over a stream that buffers writes

localVars == <<actor, slots, nextSlot, sender>>
remoteVars == <<bridge, uhandle, breq, router, cmds, admin, conns>>
otherVars == <<swarm, address, wire>>
vars == <<actor, slots, nextSlot, sender,
          bridge, uhandle, breq, router, cmds, admin, conns, swarm, address, wire>>

\* an actor before its worker task ran:
\*   wpc       worker task: "init" | "recv" | "handling" | "exiting" | "done"
\*   conf      spawn's confirmation oneshot: "pending" | "ok" | "closed"
\*   spawnpc   the spawn call: "waiting" | "returned" | "failed"
\*   mailbox   the mpsc queue: sequence of slot ids, head first
\*   rxClosed  the mailbox receiver has been dropped
\*   handles   senders that hold a live LocalHandle (mpsc::Sender clone)
\*   running   slots whose handler invocation is in progress
\*   state     the actor value owned by the worker
\*   enqOrder  history: slots in the order they entered the mailbox
\*   processed history: slots in the order the worker took them
\*   invoked   history: handler invocations, <<slot, "handler"|"handler_mut">>
NewActor(st) ==
    [wpc |-> "init", conf |-> "pending", spawnpc |-> "waiting",
     mailbox |-> <<>>, rxClosed |-> FALSE, handles |-> {}, running |-> {},
     state |-> st, enqOrder |-> <<>>, processed |-> <<>>, invoked |-> <<>>]

\* an unused slot; st is the oneshot's state:
\*   "unused" | "open" (sender alive, no value) | "filled" | "closed" (sender
\*   dropped without a value) | "abandoned" (receiver dropped without a value)
\* to is the actor addressed, ret what the send call returned, hret what the
\* handler returned; afterStop / afterClosed record whether the call began
\* after a Stop was answered / after the receiver was dropped
FreshSlot ==
    [msg |-> NoMsg, to |-> 0, st |-> "unused", val |-> NoResult,
     ret |-> NoResult, hret |-> NoReturn, afterStop |-> FALSE,
     afterClosed |-> FALSE]

\* a sender: pc is "nohandle" | "idle" | "sending" | "awaiting" | "dropped"
NewSender == [pc |-> "nohandle", slot |-> 0]

\* some Stop sent to actor a has been answered: its oneshot holds a value
StopAnswered(a) ==
    \E s \in Slots :
        slots[s].to = a /\ slots[s].msg = Stop /\ slots[s].st = "filled"

\* x is queued in q
InMailbox(q, x) == \E i \in 1..Len(q) : q[i] = x

(* ------------------------- codec and addresses ------------------------ *)

\* Dencoder::encode of a Message<I>, as bincode lays an enum out: the
\* variant index, then the payload (one byte each here)
EncodeMsg(m) ==
    IF m[1] = "Task" THEN <<0, m[2]>>
    ELSE IF m[1] = "TaskMut" THEN <<1, m[2]>>
    ELSE IF m[1] = "Ping" THEN <<2>>
    ELSE <<3>>

\* Dencoder::decode::<Message<I>>; NoMsg stands for Err(Decode)
DecodeMsg(bs) ==
    IF Len(bs) = 2 /\ bs[1] = 0 /\ bs[2] \in Inputs THEN Task(bs[2])
    ELSE IF Len(bs) = 2 /\ bs[1] = 1 /\ bs[2] \in Inputs THEN TaskMut(bs[2])
    ELSE IF bs = <<2>> THEN Ping
    ELSE IF bs = <<3>> THEN Stop
    ELSE NoMsg

\* variant of EncodeResult: the output of a task is left out
EncodeResultNoOutput(r) ==
    IF r[1] = "Ok" THEN <<0, 0>>
    ELSE IF r = ErrSend THEN <<1, 0>>
    ELSE IF r = ErrRecv THEN <<1, 1>>
    ELSE IF r[2] = "Task" THEN <<1, 2, r[3]>>
    ELSE <<1, 3>>

\* Dencoder::encode of a MsgResult<O, E>
EncodeResult(r) ==
    IF r = OkAccepted THEN <<0, 0>>
    ELSE IF r[1] = "Ok" THEN <<0, 1, r[3]>>
    ELSE IF r = ErrSend THEN <<1, 0>>
    ELSE IF r = ErrRecv THEN <<1, 1>>
    ELSE IF r[2] = "Task" THEN <<1, 2, r[3]>>
    ELSE <<1, 3>>

\* Dencoder::decode::<MsgResult<O, E>>; NoResult stands for Err(Decode)
DecodeResult(bs) ==
    IF bs = <<0, 0>> THEN OkAccepted
    ELSE IF Len(bs) = 3 /\ bs[1] = 0 /\ bs[2] = 1 /\ bs[3] \in Outputs THEN OkTask(bs[3])
    ELSE IF bs = <<1, 0>> THEN ErrSend
    ELSE IF bs = <<1, 1>> THEN ErrRecv
    ELSE IF Len(bs) = 3 /\ bs[1] = 1 /\ bs[2] = 2 /\ bs[3] \in Errors THEN ErrTask(bs[3])
    ELSE IF bs = <<1, 3>> THEN ErrNotAllowed
    ELSE NoResult

\* Result<Vec<u8>, remote::Error>, what UntypedHandle::send returns:
\* Ok(bytes), or Err(remote::Error::e) for e in "Decode", "Send", "Recv"
BOk(bs) == <<"Ok", bs>>
BErr(e) == <<e, <<>>>>
NoBytes == <<"None", <<>>>>

\* Result<MsgResult<O, E>, router::Error>, what RemoteHandle::send returns:
\* Ok(result), or Err(router::Error::e) for e in "Connect", "Send", "Recv",
\* "Decode"
ROk(r) == <<"Ok", r>>
RErr(e) == <<e, NoResult>>
NoOutcome == <<"None", NoResult>>

\* what a remote client can put in the body of a frame: the encoding of a
\* Message<I>, bytes that are no Message<I> (a handle of another input
\* type), or a body longer than the router admits
Garbage == <<7>>
Oversized == <<0, 1, 1>>
Bodies == {EncodeMsg(m) : m \in Message} \cup {Garbage, Oversized}

\* address.rs 141-150: the peer id of the n-th address minted; the source
\* draws 32 random bytes, here one byte, distinct for each n
PeerBytes(n) == <<(37 * n) % 256>>

\* address.rs 184-188, router.rs 170: hex::encode, two digits per byte
HexEncode(bs) ==
    [i \in 1..(2 * Len(bs)) |->
        IF i % 2 = 1 THEN bs[(i + 1) \div 2] \div 16 ELSE bs[i \div 2] % 16]

\* router.rs 407: hex::decode of a peer id of even length
HexDecode(h) ==
    [i \in 1..(Len(h) \div 2) |-> 16 * h[2 * i - 1] + h[2 * i]]

\* the textual peer ids of the addresses the router can mint
PeerKeys == {HexEncode(PeerBytes(n)) : n \in Cmds}

\* the peer id of an address no router minted
UnknownKey == HexEncode(<<0>>)

(* ----------------------------- remote state --------------------------- *)

\* an UntypedHandle value: the bridge it sends to and its HandleOpts
Handle(b, mut, stop) == [bridge |-> b, mut |-> mut, stop |-> stop]
NoHandle == Handle(0, FALSE, FALSE)

\* remote.rs 117-122: HandleOpts::new
DefaultHandle(b) == Handle(b, FALSE, FALSE)

\* a bridge whose worker has not run:
\*   pc       "init" | "recv" | "forwarding" | "exiting" | "done"
\*   mailbox  queue of request ids; rxClosed: its receiver was dropped
\*   cur      the request being forwarded; slot: the LocalHandle::send made
\*            for it; stopMsg: remote.rs 55
NewBridge ==
    [pc |-> "init", mailbox |-> <<>>, rxClosed |-> FALSE, cur |-> 0,
     slot |-> 0, stopMsg |-> FALSE, txDropped |-> FALSE]

\* an UntypedHandle::send call that has not begun; st is its oneshot's state
\* as for slots, rxDropped: the caller stopped waiting; to: the bridge;
\* msg / fwd: what the bridge decoded and whether it forwarded it
\* slot: the LocalHandle::send the bridge made for it; ret: what the call
\* returned to a caller that holds the UntypedHandle itself; late: the call
\* began after the bridge's worker had left its loop; alone: the call began
\* when the bridge's inner_handle was the actor's only LocalHandle; toggled:
\* a flag of the handle was changed while the request was queued
NewBReq ==
    [to |-> 0, bytes |-> <<>>, mut |-> FALSE, stop |-> FALSE, st |-> "unused",
     val |-> NoBytes, rxDropped |-> FALSE, msg |-> NoMsg, fwd |-> FALSE,
     slot |-> 0, ret |-> NoBytes, late |-> FALSE, alone |-> FALSE,
     toggled |-> FALSE]

\* a RouterHandle call that has not begun: the RouterMessage (kind, with the
\* handle of an Attach or the address of a Revoke), the state st of its
\* oneshot and the address in its reply; afterStop: the call was made after
\* stop() had returned Ok
NewCmd ==
    [kind |-> "none", handle |-> NoHandle, key |-> <<>>, st |-> "unused",
     addr |-> <<>>, afterStop |-> FALSE]

\* the router before Router::with_netlayer:
\*   pc        "init" | "loop" | "exiting" | "done"
\*   ctl       the control channel; ctlClosed: its receiver was dropped
\*   peers     the peer table: textual peer id -> UntypedHandle
\*   minted    number of addresses minted
\*   listening the net layer accepts connections; backlog: not yet accepted
\*   acceptOff the accept branch of the current select! is disabled
\*   acceptFailed history: accept() has returned an error
\*   readers   connections whose worker holds a read guard of the peer table
NewRouter ==
    [pc |-> "init", ctl |-> <<>>, ctlClosed |-> FALSE,
     peers |-> [k \in PeerKeys |-> NoHandle], minted |-> 0,
     listening |-> FALSE, backlog |-> <<>>, acceptOff |-> FALSE,
     acceptFailed |-> FALSE, readers |-> {}]

\* the holder of the RouterHandle:
\*   pc      "idle" | "awaiting" | "dropped" (the handle was dropped);
\*           cmd: the call in progress
\*   issued  number of calls made
\*   addrs   peer ids of the addresses attach returned
\*   revoked peer ids for which a revoke call returned
\*   stopped a stop call returned Ok
\*   failed  calls that returned an error
NewAdmin ==
    [pc |-> "idle", cmd |-> 0, issued |-> 0, addrs |-> {}, revoked |-> {},
     stopped |-> FALSE, failed |-> {}]

\* a connection that was not opened:
\*   cpc     RemoteHandle::send: "unused" | "connected" | "wroteid" |
\*           "flushed" | "done"
\*   key, body the address's peer id and the encoded message of the send
\*   c2s, s2c  bytes written by the client / by the worker
\*   rpos    number of bytes of c2s the worker has read
\*   spc     worker: "none" | "backlog" | "readid" | "locked" (it holds a
\*           read guard of the peer table) | "readmsg" | "bawait" | "closed"
\*   id      the peer id the worker read; handle: what the lookup found;
\*           buf: the message body the worker read
\*   result  what RemoteHandle::send returned
\*   afterRevoke  the connection was opened after revoke(key) had returned
\*   afterStop    the connection was opened after stop() had returned Ok
\*   lateFwd  the request was handed to the bridge when the peer table no
\*            longer held its peer id
\*   end     how the worker ended: "" (it has not) | "dropped" | "unknown" |
\*           "oversize" | "sendfail" | "bridgefail" | "replied" | "midreply" |
\*           "timeout"
NewConn ==
    [cpc |-> "unused", key |-> <<>>, body |-> <<>>, c2s |-> <<>>, s2c |-> <<>>,
     rpos |-> 0, spc |-> "none", id |-> <<>>, handle |-> NoHandle,
     buf |-> <<>>, result |-> NoOutcome, afterRevoke |-> FALSE,
     afterStop |-> FALSE, lateFwd |-> FALSE, end |-> ""]

\* the worker of a connection returned or was dropped: its stream is dropped
\* and so are the handle and the buffers it held; id stays as a record of what
\* it had read, and end as a record of why it ended
WorkerGone(c, why) ==
    [c EXCEPT !.spc = "closed", !.handle = NoHandle, !.buf = <<>>, !.rpos = 0,
              !.end = why]

\* RemoteHandle::send returned r: the client's stream is dropped
ClientGone(c, r) ==
    [c EXCEPT !.cpc = "done", !.result = r, !.body = <<>>, !.c2s = <<>>]

(* ---------------------------- ActorAddress ---------------------------- *)

\* the lengths of the texts and of the address fields that are tried
MaxTextLen == 5
MaxProtoLen == 2
MaxIdLen == 1
MaxHostLen == 3

\* the characters of a text: the two separators, a hex digit and a letter
\* that is no hex digit
Chars == {":", "@", "a", "t"}

\* the strings over cs of at most n characters
RECURSIVE StringsUpTo(_, _)
StringsUpTo(cs, n) ==
    IF n = 0 THEN {<<>>}
    ELSE LET shorter == StringsUpTo(cs, n - 1) IN
         shorter \cup {Append(t, c) : t \in shorter, c \in cs}

\* the bytes whose two hex digits are among Chars
IdBytes == {170}

\* hex::encode's digits
HexDigits == <<"0", "1", "2", "3", "4", "5", "6", "7",
               "8", "9", "a", "b", "c", "d", "e", "f">>

\* the value of a hex digit, 16 for any other character
HexValue(c) ==
    IF \E n \in 1..16 : HexDigits[n] = c
    THEN (CHOOSE n \in 1..16 : HexDigits[n] = c) - 1
    ELSE 16

\* address.rs 184-188: Display for PeerId, hex::encode of its bytes
PeerIdToString(bs) ==
    [i \in 1..(2 * Len(bs)) |->
        IF i % 2 = 1 THEN HexDigits[(bs[(i + 1) \div 2] \div 16) + 1]
        ELSE HexDigits[(bs[i \div 2] % 16) + 1]]

\* an address value, and the outcomes of try_parse: tag is "Ok",
\* "Malformed" or "Id"
Address(proto, id, host) ==
    [tag |-> "Ok", proto_id |-> proto, peer_id |-> id, host |-> host]
AddrErr(e) == [tag |-> e, proto_id |-> <<>>, peer_id |-> <<>>, host |-> <<>>]
NoAddress == AddrErr("None")

\* address.rs 162-166: PeerId::try_parse: hex::decode fails on a text of
\* odd length or with a character that is no hex digit
PeerIdTryParse(t) ==
    IF Len(t) % 2 = 1 \/ \E i \in 1..Len(t) : HexValue(t[i]) = 16
    THEN <<"Err", <<>>>>
    ELSE <<"Ok", [i \in 1..(Len(t) \div 2) |->
                    16 * HexValue(t[2 * i - 1]) + HexValue(t[2 * i])]>>

\* variant of Find: the last occurrence
FindLast(t, c) ==
    IF \E i \in 1..Len(t) : t[i] = c
    THEN (CHOOSE i \in 1..Len(t) :
            t[i] = c /\ \A j \in (i + 1)..Len(t) : t[j] # c) - 1
    ELSE -1

\* str::find: the zero-based index of the first c in t, -1 for None
Find(t, c) ==
    IF \E i \in 1..Len(t) : t[i] = c
    THEN (CHOOSE i \in 1..Len(t) :
            t[i] = c /\ \A j \in 1..(i - 1) : t[j] # c) - 1
    ELSE -1

\* the slice t[from..to] of Rust, zero-based and exclusive of to
Slice(t, from, to) == [i \in 1..(to - from) |-> t[from + i]]

\* address.rs 67-82: ActorAddress::try_parse
try_parse(value) ==
    LET peer_sep == Find(value, ":")
        host_sep == Find(value, "@") IN
    IF peer_sep = -1 \/ host_sep = -1 THEN AddrErr("Malformed")
    ELSE IF peer_sep = 0 \/ host_sep = 0 \/ peer_sep >= host_sep
    THEN AddrErr("Malformed")
    ELSE LET peer_id == PeerIdTryParse(Slice(value, peer_sep + 1, host_sep)) IN
         IF peer_id[1] = "Err" THEN AddrErr("Id")
         ELSE Address(Slice(value, 0, peer_sep), peer_id[2],
                      Slice(value, host_sep + 1, Len(value)))

\* address.rs 128-132: Display for ActorAddress
to_string(a) ==
    a.proto_id \o <<":">> \o PeerIdToString(a.peer_id) \o <<"@">> \o a.host

\* the address values that are tried: any protocol tag and host over Chars,
\* any peer id over IdBytes
Addresses ==
    {Address(p, i, h) : p \in StringsUpTo(Chars, MaxProtoLen),
                        i \in StringsUpTo(IdBytes, MaxIdLen),
                        h \in StringsUpTo(Chars, MaxHostLen)}

\* no address is being handled
NoAddrRun ==
    [pc |-> "unused", from |-> "none", value |-> NoAddress, text |-> <<>>,
     parsed |-> NoAddress]

\* models.rs: TaskResult and MessagingError as the actor's responses
Accepted == <<"Ok", "Accepted", 0>>
Finished(y) == <<"Ok", "Finished", y>>
TaskFailed(e) == <<"Err", "Task", e>>
Unauthorized == <<"Err", "Unauthorized", 0>>
Banned == <<"Err", "Banned", 0>>
Internal == <<"Err", "Internal", 0>>

\* actors/auth.rs 191-201: AccessResolution; "Error" stands for a resolve
\* call that returned Err(AuthError)
Resolutions == {"Accepted", "Denied", "Ban", "Error"}

\* models.rs: the kinds of MessageType
MessageTypes == {"Ping", "Stop", "TaskRequest", "Task"}

\* the peers that send requests to the libp2p actor
RemotePeers == Clients

\* a request no peer has sent yet: res is the authorizer's resolution,
\* handled whether Actor::handle ran for it, resp the response the actor
\* task issued, reply what the peer received; afterBan: when the request
\* came in, an earlier request of its peer had been resolved Ban
NewAReq ==
    [peer |-> 0, kind |-> "None", st |-> "unused", res |-> "None",
     handled |-> FALSE, resp |-> NoResult, reply |-> NoResult,
     afterBan |-> FALSE]

\* the libp2p actor before Actor::spawn: apc / spc are the positions of the
\* actor task and of the swarm loop, actorQ and swarmQ the two channels
\* between them, inbound the keys of inbound_requests, banned the peers
\* passed to swarm.ban_peer_id
NewSwarm ==
    [apc |-> "unspawned", spc |-> "unspawned", actorQ |-> <<>>,
     swarmQ |-> <<>>, inbound |-> {}, banned |-> {},
     reqs |-> [q \in Reqs |-> NewAReq]]

\* an exchange that has not begun, over a stream that delivers what was
\* written only when it is flushed:
\*   cpc   RemoteHandle::send: "unused" | "connected" | "wroteidlen" |
\*         "wroteid" | "wrotemsglen" | "wrotemsg" | "readlen" | "readbody" |
\*         "done"
\*   spc   the connection worker: "none" | "readidlen" | "readid" |
\*         "lookup" | "readmsglen" | "readmsg" | "bawait" | "writelen" |
\*         "writebody" | "return" | "closed"
\*   key, body  the peer id of the address and the encoded message
\*   cbuf, sbuf bytes written by the client / the worker and not delivered
\*   c2s, s2c   bytes delivered to the worker / to the client
\*   rpos, cpos number of delivered bytes the worker / the client has read
\*   idlen, id, msglen, buf  what the worker read; res: the bridge's reply
\*   rlen  the reply length the client read; result: what send returned
NewWire ==
    [cpc |-> "unused", spc |-> "none", key |-> <<>>, body |-> <<>>,
     cbuf |-> <<>>, c2s |-> <<>>, rpos |-> 0, idlen |-> 0, id |-> <<>>,
     msglen |-> 0, buf |-> <<>>, res |-> <<>>, sbuf |-> <<>>, s2c |-> <<>>,
     cpos |-> 0, rlen |-> 0, result |-> NoOutcome]

\* the libp2p actor is not spawned
InitOtherUnused ==
    /\ swarm = NewSwarm
    /\ address = NoAddrRun
    /\ wire = NewWire

InitRemoteUnused ==
    /\ bridge = [b \in Actors |-> NewBridge]
    /\ uhandle = [b \in Actors |-> NoHandle]
    /\ breq = [r \in Reqs |-> NewBReq]
    /\ router = NewRouter
    /\ cmds = [n \in Cmds |-> NewCmd]
    /\ admin = NewAdmin
    /\ conns = [k \in Reqs |-> NewConn]

InitLocal ==
    /\ actor \in [Actors -> {NewActor(st) : st \in ActorStates}]
    /\ slots = [s \in Slots |-> FreshSlot]
    /\ nextSlot = 1
    /\ sender = [c \in Senders |-> NewSender]

Init == InitLocal /\ InitRemoteUnused /\ InitOtherUnused

(* ------------------------------- spawn -------------------------------- *)

\* local.rs 28: the worker's first step, conf_sender.send(Ok(()))
WorkerReady(a) ==
    /\ actor[a].wpc = "init"
    /\ actor' = [actor EXCEPT ![a].wpc = "recv", ![a].conf = "ok"]
    /\ UNCHANGED <<slots, nextSlot, sender, remoteVars, otherVars>>

\* local.rs 27: the runtime shuts down before it polled the task it was given:
\* the task is dropped with what it owns, the confirmation sender and the
\* mailbox receiver
WorkerDropped(a) ==
    /\ actor[a].wpc = "init"
    /\ actor' = [actor EXCEPT ![a].wpc = "done", ![a].conf = "closed",
                              ![a].rxClosed = TRUE]
    /\ UNCHANGED <<slots, nextSlot, sender, remoteVars, otherVars>>

\* local.rs 60, 121-124: conf_receiver.await fails on the closed channel:
\* map_err(|_| Error::Spawn)?; the mpsc sender is dropped and no LocalHandle
\* is built
SpawnFail(a) ==
    /\ actor[a].spawnpc = "waiting"
    /\ actor[a].conf = "closed"
    /\ actor' = [actor EXCEPT ![a].spawnpc = "failed"]
    /\ UNCHANGED <<slots, nextSlot, sender, remoteVars, otherVars>>

\* variant of SpawnReturn: the handle is returned without waiting for the
\* worker's confirmation
SpawnReturnAtOnce(a) ==
    /\ actor[a].spawnpc = "waiting"
    /\ actor' = [actor EXCEPT ![a].spawnpc = "returned",
                              ![a].handles = {c \in Clients : TargetOf(c) = a}]
    /\ sender' = [c \in Senders |->
                    IF c \in Clients /\ TargetOf(c) = a
                    THEN [sender[c] EXCEPT !.pc = "idle"]
                    ELSE sender[c]]
    /\ UNCHANGED <<slots, nextSlot, remoteVars, otherVars>>

\* local.rs 60-62: conf_receiver.await, then Ok(LocalHandle { sender });
\* the caller clones the handle for every client
SpawnReturn(a) ==
    /\ actor[a].spawnpc = "waiting"
    /\ actor[a].conf = "ok"
    /\ actor' = [actor EXCEPT ![a].spawnpc = "returned",
                              ![a].handles = {c \in Clients : TargetOf(c) = a}]
    /\ sender' = [c \in Senders |->
                    IF c \in Clients /\ TargetOf(c) = a
                    THEN [sender[c] EXCEPT !.pc = "idle"]
                    ELSE sender[c]]
    /\ UNCHANGED <<slots, nextSlot, remoteVars, otherVars>>

(* -------------------------- LocalHandle::send ------------------------- *)

\* local.rs 89-90: the slot of a send call that begins now
StartedSlot(c, m) ==
    [FreshSlot EXCEPT !.msg = m, !.to = TargetOf(c), !.st = "open",
                      !.afterStop = StopAnswered(TargetOf(c)),
                      !.afterClosed = actor[TargetOf(c)].rxClosed]

\* local.rs 89-90: a send call begins and creates its oneshot channel
SendStart(c, m) ==
    /\ sender[c].pc = "idle"
    /\ nextSlot <= MaxSends
    /\ slots' = [slots EXCEPT ![nextSlot] = StartedSlot(c, m)]
    /\ sender' = [sender EXCEPT ![c] = [pc |-> "sending", slot |-> nextSlot]]
    /\ nextSlot' = nextSlot + 1
    /\ UNCHANGED <<actor, remoteVars, otherVars>>

\* local.rs 89-90: a send call begins, one of a burst of BurstSends calls
SendStartBurst(c, m) ==
    /\ sender[c].pc = "idle"
    /\ nextSlot <= BurstSends
    /\ slots' = [slots EXCEPT ![nextSlot] = StartedSlot(c, m)]
    /\ sender' = [sender EXCEPT ![c] = [pc |-> "sending", slot |-> nextSlot]]
    /\ nextSlot' = nextSlot + 1
    /\ UNCHANGED <<actor, remoteVars, otherVars>>

\* variant of SendEnqueue: the mailbox takes a message whatever it holds
SendEnqueueUnbounded(c) ==
    LET a == TargetOf(c) IN
    /\ sender[c].pc = "sending"
    /\ ~actor[a].rxClosed
    /\ actor' = [actor EXCEPT
                    ![a].mailbox = Append(@, sender[c].slot),
                    ![a].enqOrder = Append(@, sender[c].slot)]
    /\ sender' = [sender EXCEPT ![c].pc = "awaiting"]
    /\ UNCHANGED <<slots, nextSlot, remoteVars, otherVars>>

\* local.rs 92-95: self.sender.send((msg, sender)).await on an open mailbox
\* with a free permit; a full mailbox leaves the call waiting here
SendEnqueue(c) ==
    LET a == TargetOf(c) IN
    /\ sender[c].pc = "sending"
    /\ ~actor[a].rxClosed
    /\ Len(actor[a].mailbox) < MailboxCap
    /\ actor' = [actor EXCEPT
                    ![a].mailbox = Append(@, sender[c].slot),
                    ![a].enqOrder = Append(@, sender[c].slot)]
    /\ sender' = [sender EXCEPT ![c].pc = "awaiting"]
    /\ UNCHANGED <<slots, nextSlot, remoteVars, otherVars>>

\* variant of ClosedMailboxError: the two channel errors swapped
ClosedMailboxErrorAsRecv == ErrRecv

\* local.rs 95: the error of a send on a closed mailbox
ClosedMailboxError == ErrSend

\* local.rs 95: the mailbox is closed, map_err(|_| MsgError::Send)
SendFail(c) ==
    /\ sender[c].pc = "sending"
    /\ actor[TargetOf(c)].rxClosed
    /\ slots' = [slots EXCEPT ![sender[c].slot].ret = ClosedMailboxError,
                              ![sender[c].slot].st = "closed"]
    /\ sender' = [sender EXCEPT ![c] = [pc |-> "idle", slot |-> 0]]
    /\ UNCHANGED <<actor, nextSlot, remoteVars, otherVars>>

\* local.rs 97: receiver.await yields the reply
SendReply(c) ==
    /\ sender[c].pc = "awaiting"
    /\ slots[sender[c].slot].st = "filled"
    /\ slots' = [slots EXCEPT ![sender[c].slot].ret = slots[sender[c].slot].val]
    /\ sender' = [sender EXCEPT ![c] = [pc |-> "idle", slot |-> 0]]
    /\ UNCHANGED <<actor, nextSlot, remoteVars, otherVars>>

\* local.rs 97: the oneshot sender was dropped, map_err(|_| MsgError::Recv)
SendRecvFail(c) ==
    /\ sender[c].pc = "awaiting"
    /\ slots[sender[c].slot].st = "closed"
    /\ slots' = [slots EXCEPT ![sender[c].slot].ret = ErrRecv]
    /\ sender' = [sender EXCEPT ![c] = [pc |-> "idle", slot |-> 0]]
    /\ UNCHANGED <<actor, nextSlot, remoteVars, otherVars>>

\* local.rs 97: the caller drops the future of send while it awaits the reply
\* (a select! or a timeout around it): the oneshot receiver is dropped, the
\* message stays in the mailbox and the borrow of the handle ends
SendAbandon(c) ==
    /\ sender[c].pc = "awaiting"
    /\ slots' = [slots EXCEPT ![sender[c].slot].st =
                    IF @ = "open" THEN "abandoned" ELSE @]
    /\ sender' = [sender EXCEPT ![c] = [pc |-> "idle", slot |-> 0]]
    /\ UNCHANGED <<actor, nextSlot, remoteVars, otherVars>>

\* variant of DropHandle: the bridge shares the user's handle instead of
\* holding a clone, so the last user handle is the last sender
DropHandleShared(c) ==
    /\ sender[c].pc = "idle"
    /\ sender' = [sender EXCEPT ![c].pc = "dropped"]
    /\ actor' = [actor EXCEPT ![TargetOf(c)].handles =
                    IF c \in Clients THEN {} ELSE @ \ {c}]
    /\ UNCHANGED <<slots, nextSlot, remoteVars, otherVars>>

\* a client drops its LocalHandle clone
DropHandle(c) ==
    /\ sender[c].pc = "idle"
    /\ sender' = [sender EXCEPT ![c].pc = "dropped"]
    /\ actor' = [actor EXCEPT ![TargetOf(c)].handles = @ \ {c}]
    /\ UNCHANGED <<slots, nextSlot, remoteVars, otherVars>>

(* ----------------------------- the worker ----------------------------- *)

\* variant of WorkerIdle: messages are taken while a handler still runs
WorkerIdleOrHandling(a) == actor[a].wpc \in {"recv", "handling"}

\* local.rs 29: the worker is at `receiver.recv().await`; it is a single task,
\* so it takes the next message only after it finished the previous one
WorkerIdle(a) == actor[a].wpc = "recv"

\* variant of NextInMailbox: the newest queued message is taken first
NewestInMailbox(a) == actor[a].mailbox[Len(actor[a].mailbox)]

\* local.rs 29: recv() yields the oldest queued message
NextInMailbox(a) == Head(actor[a].mailbox)
RestOfMailbox(a) == Tail(actor[a].mailbox)

\* variant of Replied: the actor has one reply slot, that of the latest send
RepliedToLatest(s, r) ==
    LET t == CHOOSE x \in Slots :
                 /\ slots[x].to = slots[s].to
                 /\ \A y \in Slots : slots[y].to = slots[s].to => y <= x
    IN  IF slots[t].st = "open"
        THEN [slots EXCEPT ![t].st = "filled", ![t].val = r]
        ELSE slots

\* local.rs 65-72: try_send_reply; a reply to a dropped receiver is discarded
Replied(s, r) ==
    IF slots[s].st = "open"
    THEN [slots EXCEPT ![s].st = "filled", ![s].val = r]
    ELSE slots

\* local.rs 49: the reply to Ping
PingReply == OkAccepted

\* local.rs 52: the reply to Stop
StopReply == OkAccepted

\* variant of AfterStop: the loop goes on after a Stop
AfterStopKeepsLooping == "recv"

\* local.rs 53: `break` leaves the receive loop
AfterStop == "exiting"

\* local.rs 31-32: Task(input) => actor.handler(input).await begins
WorkerRecvTask(a) ==
    /\ WorkerIdle(a)
    /\ actor[a].mailbox # <<>>
    /\ slots[NextInMailbox(a)].msg[1] = "Task"
    /\ actor' = [actor EXCEPT
                    ![a].mailbox = RestOfMailbox(a),
                    ![a].processed = Append(@, NextInMailbox(a)),
                    ![a].running = @ \cup {NextInMailbox(a)},
                    ![a].invoked = Append(@, <<NextInMailbox(a), "handler">>),
                    ![a].wpc = "handling"]
    /\ UNCHANGED <<slots, nextSlot, sender, remoteVars, otherVars>>

\* local.rs 39-40: TaskMut(input) => actor.handler_mut(input).await begins
WorkerRecvTaskMut(a) ==
    /\ WorkerIdle(a)
    /\ actor[a].mailbox # <<>>
    /\ slots[NextInMailbox(a)].msg[1] = "TaskMut"
    /\ actor' = [actor EXCEPT
                    ![a].mailbox = RestOfMailbox(a),
                    ![a].processed = Append(@, NextInMailbox(a)),
                    ![a].running = @ \cup {NextInMailbox(a)},
                    ![a].invoked = Append(@, <<NextInMailbox(a), "handler_mut">>),
                    ![a].wpc = "handling"]
    /\ UNCHANGED <<slots, nextSlot, sender, remoteVars, otherVars>>

\* variant of HandlerReturn: a reply nobody waits for ends the worker
HandlerReturnEndsOnLostReply(a, s, h) ==
    /\ s \in actor[a].running
    /\ slots[s].msg[1] = "Task"
    /\ h \in HandlerReturns
    /\ slots' = [Replied(s, TaskReply(h)) EXCEPT ![s].hret = h]
    /\ actor' = [actor EXCEPT ![a].running = @ \ {s},
                              ![a].wpc = IF slots[s].st = "open"
                                         THEN "recv" ELSE "exiting"]
    /\ UNCHANGED <<nextSlot, sender, remoteVars, otherVars>>

\* local.rs 32-37: the read-only handler (&self) returns h; the reply is sent
HandlerReturn(a, s, h) ==
    /\ s \in actor[a].running
    /\ slots[s].msg[1] = "Task"
    /\ h \in HandlerReturns
    /\ slots' = [Replied(s, TaskReply(h)) EXCEPT ![s].hret = h]
    /\ actor' = [actor EXCEPT ![a].running = @ \ {s}, ![a].wpc = "recv"]
    /\ UNCHANGED <<nextSlot, sender, remoteVars, otherVars>>

\* local.rs 40-46: the mutating handler (&mut self) returns h, leaving the
\* actor in state st; the reply is sent
HandlerMutReturn(a, s, h, st) ==
    /\ s \in actor[a].running
    /\ slots[s].msg[1] = "TaskMut"
    /\ h \in HandlerMutReturns
    /\ st \in ActorStates
    /\ slots' = [Replied(s, TaskMutReply(h)) EXCEPT ![s].hret = h]
    /\ actor' = [actor EXCEPT ![a].running = @ \ {s}, ![a].wpc = "recv",
                              ![a].state = st]
    /\ UNCHANGED <<nextSlot, sender, remoteVars, otherVars>>

\* a handler panics: the worker task unwinds, dropping the reply sender of
\* the message it was handling
HandlerPanic(a, s) ==
    /\ s \in actor[a].running
    /\ slots' = [slots EXCEPT ![s].st =
                    IF slots[s].st = "open" THEN "closed" ELSE slots[s].st]
    /\ actor' = [actor EXCEPT ![a].running = @ \ {s}, ![a].wpc = "exiting"]
    /\ UNCHANGED <<nextSlot, sender, remoteVars, otherVars>>

\* variant of WorkerRecvPing: the Ping is passed through the mutating handler
WorkerRecvPingViaHandlerMut(a) ==
    /\ actor[a].wpc = "recv"
    /\ actor[a].mailbox # <<>>
    /\ slots[Head(actor[a].mailbox)].msg = Ping
    /\ \E st \in ActorStates :
        actor' = [actor EXCEPT
                    ![a].mailbox = Tail(@),
                    ![a].processed = Append(@, Head(actor[a].mailbox)),
                    ![a].invoked = Append(@, <<Head(actor[a].mailbox), "handler_mut">>),
                    ![a].state = st]
    /\ slots' = [slots EXCEPT ![Head(actor[a].mailbox)].st = "filled",
                              ![Head(actor[a].mailbox)].val = OkAccepted]
    /\ UNCHANGED <<nextSlot, sender, remoteVars, otherVars>>

\* local.rs 48-50: Ping is answered without calling a handler
WorkerRecvPing(a) ==
    /\ WorkerIdle(a)
    /\ actor[a].mailbox # <<>>
    /\ slots[NextInMailbox(a)].msg = Ping
    /\ actor' = [actor EXCEPT
                    ![a].mailbox = RestOfMailbox(a),
                    ![a].processed = Append(@, NextInMailbox(a))]
    /\ slots' = Replied(NextInMailbox(a), PingReply)
    /\ UNCHANGED <<nextSlot, sender, remoteVars, otherVars>>

\* variant of WorkerRecvStop: the Stop is not answered
WorkerRecvStopNoReply(a) ==
    /\ actor[a].wpc = "recv"
    /\ actor[a].mailbox # <<>>
    /\ slots[Head(actor[a].mailbox)].msg = Stop
    /\ actor' = [actor EXCEPT
                    ![a].mailbox = Tail(@),
                    ![a].processed = Append(@, Head(actor[a].mailbox)),
                    ![a].wpc = "exiting"]
    /\ slots' = [slots EXCEPT ![Head(actor[a].mailbox)].st = "closed"]
    /\ UNCHANGED <<nextSlot, sender, remoteVars, otherVars>>

\* local.rs 51-54: Stop is answered, then the loop is left
WorkerRecvStop(a) ==
    /\ WorkerIdle(a)
    /\ actor[a].mailbox # <<>>
    /\ slots[NextInMailbox(a)].msg = Stop
    /\ actor' = [actor EXCEPT
                    ![a].mailbox = RestOfMailbox(a),
                    ![a].processed = Append(@, NextInMailbox(a)),
                    ![a].wpc = AfterStop]
    /\ slots' = Replied(NextInMailbox(a), StopReply)
    /\ UNCHANGED <<nextSlot, sender, remoteVars, otherVars>>

\* variant of WorkerRecvNone: the loop ends as soon as every handle is gone,
\* whatever is still queued
WorkerRecvNoneDiscards(a) ==
    /\ WorkerIdle(a)
    /\ actor[a].spawnpc # "waiting"
    /\ actor[a].handles = {}
    /\ actor' = [actor EXCEPT ![a].wpc = "exiting"]
    /\ UNCHANGED <<slots, nextSlot, sender, remoteVars, otherVars>>

\* local.rs 29: recv() yields None once the mailbox is empty and every
\* sender (every LocalHandle) is gone
WorkerRecvNone(a) ==
    /\ WorkerIdle(a)
    /\ actor[a].mailbox = <<>>
    /\ actor[a].spawnpc # "waiting"
    /\ actor[a].handles = {}
    /\ actor' = [actor EXCEPT ![a].wpc = "exiting"]
    /\ UNCHANGED <<slots, nextSlot, sender, remoteVars, otherVars>>

\* variant of Drained: queued messages are kept alive, not dropped
DrainedKeepsSlots(a) == slots

\* the slots after actor a's receiver was dropped: each queued
\* (msg, oneshot sender) pair is dropped, closing its oneshot
Drained(a) ==
    [s \in Slots |->
        IF /\ \E i \in 1..Len(actor[a].mailbox) : actor[a].mailbox[i] = s
           /\ slots[s].st = "open"
        THEN [slots[s] EXCEPT !.st = "closed"]
        ELSE slots[s]]

\* local.rs 57: the task's future completes and drops `receiver`: the
\* mailbox closes and what is still queued is dropped
WorkerExit(a) ==
    /\ actor[a].wpc = "exiting"
    /\ actor' = [actor EXCEPT ![a].wpc = "done", ![a].rxClosed = TRUE,
                              ![a].mailbox = <<>>]
    /\ slots' = Drained(a)
    /\ UNCHANGED <<nextSlot, sender, remoteVars, otherVars>>

(* ------------------- the bridge: spawn_untyped's worker --------------- *)

\* variant of validate: only the mutation flag is looked at
validateMutOnly(mut, stop, m) ==
    IF m[1] = "TaskMut" /\ ~mut THEN FALSE
    ELSE TRUE

\* remote.rs 64-66, 86: the worker of bridge b has left its receive loop
BridgeLeft(b) == bridge[b].pc \in {"exiting", "done"}

\* remote.rs 127-133: HandleOpts::validate; TRUE stands for Ok(())
validate(mut, stop, m) ==
    IF m[1] = "TaskMut" /\ ~mut THEN FALSE
    ELSE IF m = Stop /\ ~stop THEN FALSE
    ELSE TRUE

\* remote.rs 50, 60, 70, 79: sender.send(v) on the oneshot of request r; a
\* value sent to a receiver that was dropped is discarded
BReplied(r, v) ==
    IF breq[r].st = "open" /\ ~breq[r].rxDropped
    THEN [breq EXCEPT ![r].st = "filled", ![r].val = v]
    ELSE [breq EXCEPT ![r].st = "closed"]

\* variant of RequestOpts: the flags the handle has now
RequestOptsNow(r) == [mut |-> uhandle[breq[r].to].mut,
                      stop |-> uhandle[breq[r].to].stop]

\* remote.rs 45: the HandleOpts received with request r, the copy of the
\* handle's flags that UntypedHandle::send put in the channel
RequestOpts(r) == [mut |-> breq[r].mut, stop |-> breq[r].stop]

\* variant of BridgeRecvUndecodable: the worker gives up on a decode failure
BridgeRecvUndecodableExits(b) ==
    /\ bridge[b].pc = "recv"
    /\ bridge[b].mailbox # <<>>
    /\ LET r == Head(bridge[b].mailbox) IN
        /\ DecodeMsg(breq[r].bytes) = NoMsg
        /\ breq' = BReplied(r, BErr("Decode"))
    /\ bridge' = [bridge EXCEPT ![b].mailbox = Tail(@), ![b].pc = "exiting"]
    /\ UNCHANGED <<otherVars, localVars, uhandle, router, cmds, admin, conns>>

\* remote.rs 45-46, 76-83: the next request does not decode to a Message<I>;
\* Err(Error::Decode) is sent back
BridgeRecvUndecodable(b) ==
    /\ bridge[b].pc = "recv"
    /\ bridge[b].mailbox # <<>>
    /\ LET r == Head(bridge[b].mailbox) IN
        /\ DecodeMsg(breq[r].bytes) = NoMsg
        /\ breq' = BReplied(r, BErr("Decode"))
    /\ bridge' = [bridge EXCEPT ![b].mailbox = Tail(@)]
    /\ UNCHANGED <<otherVars, localVars, uhandle, router, cmds, admin, conns>>

\* remote.rs 48-53: the flags that came with the request do not admit the
\* message; the encoded Err(MsgError::NotAllowed) is sent back and the actor
\* is not contacted
BridgeRecvNotAllowed(b) ==
    /\ bridge[b].pc = "recv"
    /\ bridge[b].mailbox # <<>>
    /\ LET r == Head(bridge[b].mailbox)
           m == DecodeMsg(breq[r].bytes) IN
        /\ m # NoMsg
        /\ ~validate(RequestOpts(r).mut, RequestOpts(r).stop, m)
        /\ breq' = [BReplied(r, BOk(EncodeResult(ErrNotAllowed)))
                        EXCEPT ![r].msg = m]
    /\ bridge' = [bridge EXCEPT ![b].mailbox = Tail(@)]
    /\ UNCHANGED <<otherVars, localVars, uhandle, router, cmds, admin, conns>>

\* variant of BridgeForward: the next request is taken while the reply to
\* the one before is awaited
BridgeForwardNoWait(b) ==
    /\ bridge[b].pc \in {"recv", "forwarding"}
    /\ bridge[b].mailbox # <<>>
    /\ nextSlot <= MaxSends
    /\ LET r == Head(bridge[b].mailbox)
           m == DecodeMsg(breq[r].bytes) IN
        /\ m # NoMsg
        /\ validate(RequestOpts(r).mut, RequestOpts(r).stop, m)
        /\ breq' = [breq EXCEPT ![r].msg = m, ![r].fwd = TRUE,
                                 ![r].slot = nextSlot]
        /\ slots' = [slots EXCEPT ![nextSlot] = StartedSlot(BridgeSender(b), m)]
        /\ bridge' = [bridge EXCEPT ![b] =
                        [@ EXCEPT !.pc = "forwarding", !.mailbox = Tail(@),
                                  !.cur = r, !.slot = nextSlot,
                                  !.stopMsg = (m = Stop)]]
    /\ sender' = [sender EXCEPT ![BridgeSender(b)] =
                        [pc |-> "sending", slot |-> nextSlot]]
    /\ nextSlot' = nextSlot + 1
    /\ UNCHANGED <<actor, uhandle, router, cmds, admin, conns, otherVars>>

\* remote.rs 55-57: the message is admitted; inner_handle.send(msg) begins
BridgeForward(b) ==
    /\ bridge[b].pc = "recv"
    /\ bridge[b].mailbox # <<>>
    /\ nextSlot <= MaxSends
    /\ LET r == Head(bridge[b].mailbox)
           m == DecodeMsg(breq[r].bytes) IN
        /\ m # NoMsg
        /\ validate(RequestOpts(r).mut, RequestOpts(r).stop, m)
        /\ breq' = [breq EXCEPT ![r].msg = m, ![r].fwd = TRUE,
                                 ![r].slot = nextSlot]
        /\ slots' = [slots EXCEPT ![nextSlot] = StartedSlot(BridgeSender(b), m)]
        /\ bridge' = [bridge EXCEPT ![b] =
                        [@ EXCEPT !.pc = "forwarding", !.mailbox = Tail(@),
                                  !.cur = r, !.slot = nextSlot,
                                  !.stopMsg = (m = Stop)]]
    /\ sender' = [sender EXCEPT ![BridgeSender(b)] =
                        [pc |-> "sending", slot |-> nextSlot]]
    /\ nextSlot' = nextSlot + 1
    /\ UNCHANGED <<actor, uhandle, router, cmds, admin, conns, otherVars>>

\* variant of BridgeReply: the loop goes on after a Stop
BridgeReplyKeepsLooping(b) ==
    /\ bridge[b].pc = "forwarding"
    /\ sender[BridgeSender(b)].pc = "idle"
    /\ breq' = BReplied(bridge[b].cur,
                        BOk(EncodeResult(slots[bridge[b].slot].ret)))
    /\ bridge' = [bridge EXCEPT ![b] =
                    [@ EXCEPT !.pc = "recv",
                              !.cur = 0, !.slot = 0, !.stopMsg = FALSE]]
    /\ UNCHANGED <<otherVars, localVars, uhandle, router, cmds, admin, conns>>

\* remote.rs 57-66: inner_handle.send returned; its result, an error of the
\* local send included, is encoded and sent back as Ok(bytes); after a Stop
\* the loop is left
BridgeReply(b) ==
    /\ bridge[b].pc = "forwarding"
    /\ sender[BridgeSender(b)].pc = "idle"
    /\ breq' = BReplied(bridge[b].cur,
                        BOk(EncodeResult(slots[bridge[b].slot].ret)))
    /\ bridge' = [bridge EXCEPT ![b] =
                    [@ EXCEPT !.pc = IF bridge[b].stopMsg THEN "exiting" ELSE "recv",
                              !.cur = 0, !.slot = 0, !.stopMsg = FALSE]]
    /\ UNCHANGED <<otherVars, localVars, uhandle, router, cmds, admin, conns>>

\* remote.rs 86: the worker's future completes: the receiver is dropped with
\* what is still queued, and so is inner_handle
BridgeExit(b) ==
    /\ bridge[b].pc = "exiting"
    /\ bridge' = [bridge EXCEPT ![b] =
                    [@ EXCEPT !.pc = "done", !.rxClosed = TRUE, !.mailbox = <<>>]]
    /\ breq' = [r \in Reqs |->
                    IF InMailbox(bridge[b].mailbox, r) /\ breq[r].st = "open"
                    THEN [breq[r] EXCEPT !.st = "closed"]
                    ELSE breq[r]]
    /\ actor' = [actor EXCEPT ![b].handles = @ \ {BridgeSender(b)}]
    /\ sender' = [sender EXCEPT ![BridgeSender(b)].pc = "dropped"]
    /\ UNCHANGED <<slots, nextSlot, uhandle, router, cmds, admin, conns, otherVars>>

(* --------------------- RouterHandle: the administrator ---------------- *)

\* router.rs 279-287, 302-310, 325-333: a call creates its oneshot and sends
\* (command, oneshot sender) on the control channel; on a closed channel it
\* returns Err(Error::Send)
AdminCall(kind, h, key) ==
    /\ admin.pc = "idle"
    /\ admin.issued < MaxCmds
    /\ LET i == admin.issued + 1 IN
        IF router.ctlClosed
        THEN /\ cmds' = [cmds EXCEPT ![i] =
                            [NewCmd EXCEPT !.kind = kind, !.handle = h,
                                           !.key = key, !.st = "closed",
                                           !.afterStop = admin.stopped]]
             /\ admin' = [admin EXCEPT
                            !.issued = i,
                            !.failed = @ \cup {i},
                            !.revoked = IF kind = "Revoke" THEN @ \cup {key} ELSE @]
             /\ UNCHANGED router
        ELSE /\ cmds' = [cmds EXCEPT ![i] =
                            [NewCmd EXCEPT !.kind = kind, !.handle = h,
                                           !.key = key, !.st = "open",
                                           !.afterStop = admin.stopped]]
             /\ admin' = [admin EXCEPT !.issued = i, !.pc = "awaiting", !.cmd = i]
             /\ router' = [router EXCEPT !.ctl = Append(@, i)]
    /\ UNCHANGED <<otherVars, localVars, bridge, uhandle, breq, conns>>

\* router.rs 279-287: attach(handle) with the UntypedHandle of bridge b
AdminAttach(b) == AdminCall("Attach", uhandle[b], <<>>)

\* router.rs 302-310: revoke(address) with an address attach returned
AdminRevoke(key) ==
    /\ key \in admin.addrs
    /\ AdminCall("Revoke", NoHandle, key)

\* router.rs 325-333: stop()
AdminStop == AdminCall("Stop", NoHandle, <<>>)

\* router.rs 268-274: the RouterHandle, which is not Clone, is dropped when
\* no call on it is in progress; its mpsc sender was the only one
AdminDrop ==
    /\ admin.pc = "idle"
    /\ admin' = [admin EXCEPT !.pc = "dropped"]
    /\ UNCHANGED <<otherVars, localVars, bridge, uhandle, breq, router, cmds, conns>>

\* router.rs 289-296, 312-319, 335-342: receiver.await yields the reply
AdminReply ==
    /\ admin.pc = "awaiting"
    /\ cmds[admin.cmd].st = "filled"
    /\ admin' = [admin EXCEPT
                    !.pc = "idle", !.cmd = 0,
                    !.addrs = IF cmds[admin.cmd].kind = "Attach"
                              THEN @ \cup {cmds[admin.cmd].addr} ELSE @,
                    !.revoked = IF cmds[admin.cmd].kind = "Revoke"
                                THEN @ \cup {cmds[admin.cmd].addr} ELSE @,
                    !.stopped = @ \/ cmds[admin.cmd].kind = "Stop"]
    /\ UNCHANGED <<otherVars, localVars, bridge, uhandle, breq, router, cmds, conns>>

\* router.rs 289-292, 312-315, 335-338: the oneshot sender was dropped without
\* a reply; the call returns Err(Error::Recv)
AdminRecvFail ==
    /\ admin.pc = "awaiting"
    /\ cmds[admin.cmd].st = "closed"
    /\ admin' = [admin EXCEPT
                    !.pc = "idle", !.cmd = 0,
                    !.failed = @ \cup {admin.cmd},
                    !.revoked = IF cmds[admin.cmd].kind = "Revoke"
                                THEN @ \cup {cmds[admin.cmd].key} ELSE @]
    /\ UNCHANGED <<otherVars, localVars, bridge, uhandle, breq, router, cmds, conns>>

(* ------------------------ the router's control loop ------------------- *)

\* router.rs 95, 106, 111: sender.send(Ok(reply)) on the oneshot of command i
CReplied(i, addr) ==
    [cmds EXCEPT ![i].st = IF @ = "open" THEN "filled" ELSE @,
                 ![i].addr = addr]

\* the command the select! of router.rs 90-91 yields next
NextCommand == Head(router.ctl)

\* variant of RouterRecvStop: Stop is answered and the loop goes on
RouterRecvStopKeepsLooping ==
    /\ router.pc = "loop"
    /\ router.ctl # <<>>
    /\ cmds[NextCommand].kind = "Stop"
    /\ cmds' = CReplied(NextCommand, <<>>)
    /\ router' = [router EXCEPT !.ctl = Tail(@), !.acceptOff = FALSE]
    /\ UNCHANGED <<otherVars, localVars, bridge, uhandle, breq, admin, conns>>

\* router.rs 93-96: Stop is answered Accepted and the loop returns
RouterRecvStop ==
    /\ router.pc = "loop"
    /\ router.ctl # <<>>
    /\ cmds[NextCommand].kind = "Stop"
    /\ cmds' = CReplied(NextCommand, <<>>)
    /\ router' = [router EXCEPT !.pc = "exiting", !.ctl = Tail(@)]
    /\ UNCHANGED <<otherVars, localVars, bridge, uhandle, breq, admin, conns>>

\* address.rs 28-46: ActorAddress::new, the peer id of the next address
NewPeerKey == HexEncode(PeerBytes(router.minted + 1))

\* variant of RouterRecvAttach: the address is answered and the table is not
\* written
RouterRecvAttachNoInsert ==
    /\ router.pc = "loop"
    /\ router.ctl # <<>>
    /\ cmds[NextCommand].kind = "Attach"
    /\ router.minted < MaxCmds
    /\ cmds' = CReplied(NextCommand, NewPeerKey)
    /\ router' = [router EXCEPT !.ctl = Tail(@), !.minted = @ + 1,
                                !.acceptOff = FALSE]
    /\ UNCHANGED <<otherVars, localVars, bridge, uhandle, breq, admin, conns>>

\* router.rs 97-107: Attach mints an address, inserts its peer id with the
\* handle into the peer table and answers with the address
RouterRecvAttach ==
    /\ router.pc = "loop"
    /\ router.ctl # <<>>
    /\ cmds[NextCommand].kind = "Attach"
    /\ router.minted < MaxCmds
    /\ router.readers = {}
    /\ cmds' = CReplied(NextCommand, NewPeerKey)
    /\ router' = [router EXCEPT
                    !.ctl = Tail(@),
                    !.minted = @ + 1,
                    !.acceptOff = FALSE,
                    !.peers = [@ EXCEPT ![NewPeerKey] = cmds[NextCommand].handle]]
    /\ UNCHANGED <<otherVars, localVars, bridge, uhandle, breq, admin, conns>>

\* router.rs 98-102: ActorAddress::new failed; `continue` drops the oneshot
\* sender without a reply and the table is left alone
RouterAttachAddrFail ==
    /\ router.pc = "loop"
    /\ router.ctl # <<>>
    /\ cmds[NextCommand].kind = "Attach"
    /\ cmds' = [cmds EXCEPT ![NextCommand].st = "closed"]
    /\ router' = [router EXCEPT !.ctl = Tail(@), !.acceptOff = FALSE]
    /\ UNCHANGED <<otherVars, localVars, bridge, uhandle, breq, admin, conns>>

\* variant of PeersAfterRevoke: every address of the same bridge is removed
PeersAfterRevokeOfBridge(key) ==
    [id \in DOMAIN router.peers |->
        IF id = key \/ (key \in DOMAIN router.peers
                       /\ router.peers[id] = router.peers[key])
        THEN NoHandle
        ELSE router.peers[id]]

\* variant of PeersAfterRevoke: the entry is left in the table
PeersAfterRevokeKept(key) == router.peers

\* router.rs 109: peers.write().await.remove(addr.peer_id())
PeersAfterRevoke(key) ==
    IF key \in DOMAIN router.peers THEN [router.peers EXCEPT ![key] = NoHandle]
    ELSE router.peers

\* router.rs 108-112: Revoke removes the peer id from the table, then answers
\* with the address
RouterRecvRevoke ==
    /\ router.pc = "loop"
    /\ router.ctl # <<>>
    /\ cmds[NextCommand].kind = "Revoke"
    /\ router.readers = {}
    /\ cmds' = CReplied(NextCommand, cmds[NextCommand].key)
    /\ router' = [router EXCEPT
                    !.ctl = Tail(@),
                    !.acceptOff = FALSE,
                    !.peers = PeersAfterRevoke(cmds[NextCommand].key)]
    /\ UNCHANGED <<otherVars, localVars, bridge, uhandle, breq, admin, conns>>

\* the receiver.recv() branch of the select! cannot fire any more: the
\* RouterHandle was dropped and no command is queued, so recv() yields None,
\* which the pattern Some(..) refuses
RecvBranchDead == admin.pc = "dropped" /\ router.ctl = <<>>

\* variant of RouterAcceptFail: a failed accept is retried by the next turn
\* of the loop
RouterAcceptFailRetried ==
    /\ router.pc = "loop"
    /\ ~router.acceptOff
    /\ router' = [router EXCEPT !.acceptFailed = TRUE]
    /\ UNCHANGED <<otherVars, localVars, bridge, uhandle, breq, cmds, admin, conns>>

\* router.rs 90, 115: netlayer.accept() yields Err, which the pattern
\* Ok(mut stream) refuses: the branch is disabled for this select!; if the
\* other branch is disabled too, select!, which has no else branch, panics
\* and the task unwinds
RouterAcceptFail ==
    /\ router.pc = "loop"
    /\ ~router.acceptOff
    /\ router' = [router EXCEPT
                    !.acceptFailed = TRUE,
                    !.acceptOff = ~RecvBranchDead,
                    !.pc = IF RecvBranchDead THEN "exiting" ELSE @]
    /\ UNCHANGED <<otherVars, localVars, bridge, uhandle, breq, cmds, admin, conns>>

\* router.rs 90-91: receiver.recv() yields None while the accept branch is
\* disabled: select! panics and the task unwinds
RouterRecvNone ==
    /\ router.pc = "loop"
    /\ router.acceptOff
    /\ RecvBranchDead
    /\ router' = [router EXCEPT !.pc = "exiting"]
    /\ UNCHANGED <<otherVars, localVars, bridge, uhandle, breq, cmds, admin, conns>>

\* router.rs 115-141: accept() yields a stream; a worker is spawned for it
RouterAccept ==
    /\ router.pc = "loop"
    /\ ~router.acceptOff
    /\ router.backlog # <<>>
    /\ conns' = [conns EXCEPT ![Head(router.backlog)].spc = "readid"]
    /\ router' = [router EXCEPT !.backlog = Tail(@)]
    /\ UNCHANGED <<otherVars, localVars, bridge, uhandle, breq, cmds, admin>>

\* router.rs 143-144: the loop's future completes: the control receiver is
\* dropped with the commands still queued, and so is the net layer with the
\* connections it had not accepted
RouterExit ==
    /\ router.pc = "exiting"
    /\ router' = [router EXCEPT !.pc = "done", !.ctlClosed = TRUE, !.ctl = <<>>,
                                !.listening = FALSE, !.backlog = <<>>]
    /\ cmds' = [i \in Cmds |->
                    IF InMailbox(router.ctl, i) /\ cmds[i].st = "open"
                    THEN [cmds[i] EXCEPT !.st = "closed"]
                    ELSE cmds[i]]
    /\ conns' = [k \in Reqs |->
                    IF InMailbox(router.backlog, k)
                    THEN WorkerGone(conns[k], "dropped")
                    ELSE conns[k]]
    /\ UNCHANGED <<otherVars, localVars, bridge, uhandle, breq, admin>>

(* ----------------------- the connection worker ------------------------ *)

\* the bytes of connection k the worker has not read yet
Unread(k) == SubSeq(conns[k].c2s, conns[k].rpos + 1, Len(conns[k].c2s))

\* a length-prefixed field is complete at the front of bs
FieldReady(bs) == Len(bs) >= 1 /\ Len(bs) >= 1 + bs[1]
Field(bs) == SubSeq(bs, 2, 1 + bs[1])

\* variant of try_read_id: the raw bytes are used as the table key
try_read_idRaw(bs) == Field(bs)

\* router.rs 155-171: try_read_id on the bytes bs: the length-prefixed peer
\* id, hex-encoded
try_read_id(bs) == HexEncode(Field(bs))

\* router.rs 130: peers.read().await.get(&id)
Lookup(id) == IF id \in DOMAIN router.peers THEN router.peers[id] ELSE NoHandle

\* router.rs 123-130: the worker reads the peer id and peers.read().await
\* gives it a read guard of the peer table
ConnReadLock(k) ==
    /\ conns[k].spc = "readid"
    /\ FieldReady(Unread(k))
    /\ conns' = [conns EXCEPT ![k] =
                    [@ EXCEPT !.id = try_read_id(Unread(k)),
                              !.rpos = @ + 1 + Unread(k)[1],
                              !.spc = "locked"]]
    /\ router' = [router EXCEPT !.readers = @ \cup {k}]
    /\ UNCHANGED <<otherVars, localVars, bridge, uhandle, breq, cmds, admin>>

\* variant of ConnLookupLocked: the guard lives as long as the worker
ConnLookupLockedKeepsGuard(k) ==
    /\ conns[k].spc = "locked"
    /\ IF Lookup(conns[k].id) # NoHandle
       THEN /\ conns' = [conns EXCEPT ![k] =
                            [@ EXCEPT !.handle = Lookup(conns[k].id),
                                      !.spc = "readmsg"]]
            /\ UNCHANGED router
       ELSE /\ conns' = [conns EXCEPT ![k] = WorkerGone(@, "unknown")]
            /\ router' = [router EXCEPT !.readers = @ \ {k}]
    /\ UNCHANGED <<otherVars, localVars, bridge, uhandle, breq, cmds, admin>>

\* router.rs 130-136: get(&id) under the guard: the handle found is cloned,
\* or the worker returns on an unknown id; the guard, a temporary of the
\* match, is dropped where the match ends, before try_handle_message
ConnLookupLocked(k) ==
    /\ conns[k].spc = "locked"
    /\ conns' = [conns EXCEPT ![k] =
                    IF Lookup(conns[k].id) # NoHandle
                    THEN [@ EXCEPT !.handle = Lookup(conns[k].id),
                                   !.spc = "readmsg"]
                    ELSE WorkerGone(@, "unknown")]
    /\ router' = [router EXCEPT !.readers = @ \ {k}]
    /\ UNCHANGED <<otherVars, localVars, bridge, uhandle, breq, cmds, admin>>

\* router.rs 123-131: the worker reads the peer id and finds it in the table;
\* it clones the handle
ConnLookup(k) ==
    /\ conns[k].spc = "readid"
    /\ FieldReady(Unread(k))
    /\ Lookup(try_read_id(Unread(k))) # NoHandle
    /\ conns' = [conns EXCEPT ![k] =
                    [@ EXCEPT !.id = try_read_id(Unread(k)),
                              !.rpos = @ + 1 + Unread(k)[1],
                              !.handle = Lookup(try_read_id(Unread(k))),
                              !.spc = "readmsg"]]
    /\ UNCHANGED <<otherVars, localVars, bridge, uhandle, breq, router, cmds, admin>>

\* variant of ConnLookupMiss: the client is told that the peer is unknown
ConnLookupMissReported(k) ==
    /\ conns[k].spc = "readid"
    /\ FieldReady(Unread(k))
    /\ Lookup(try_read_id(Unread(k))) = NoHandle
    /\ conns' = [conns EXCEPT ![k] =
                    WorkerGone([@ EXCEPT !.id = try_read_id(Unread(k)),
                                         !.s2c = <<2, 1, 0>>],
                               "unknown")]
    /\ UNCHANGED <<otherVars, localVars, bridge, uhandle, breq, router, cmds, admin>>

\* router.rs 123-135: the worker reads the peer id and does not find it in
\* the table: unknown peer; it returns and drops the stream
ConnLookupMiss(k) ==
    /\ conns[k].spc = "readid"
    /\ FieldReady(Unread(k))
    /\ Lookup(try_read_id(Unread(k))) = NoHandle
    /\ conns' = [conns EXCEPT ![k] =
                    WorkerGone([@ EXCEPT !.id = try_read_id(Unread(k))],
                               "unknown")]
    /\ UNCHANGED <<otherVars, localVars, bridge, uhandle, breq, router, cmds, admin>>

\* variant of TooLarge: a message of exactly max_msg_size is refused too
TooLargeOrEqual(n) == n >= MaxMsgSize

\* router.rs 186: msg_size > opts.max_msg_size()
TooLarge(n) == n > MaxMsgSize

\* variant of ConnForward: the peer table is consulted again before the
\* request is handed over
ConnForwardIfAttached(k) ==
    LET h == conns[k].handle IN
    /\ conns[k].spc = "readmsg"
    /\ Lookup(conns[k].id) # NoHandle
    /\ Len(Unread(k)) >= 1
    /\ ~TooLarge(Unread(k)[1])
    /\ FieldReady(Unread(k))
    /\ ~bridge[h.bridge].rxClosed
    /\ Len(bridge[h.bridge].mailbox) < MailboxCap
    /\ breq' = [breq EXCEPT ![k] =
                    [NewBReq EXCEPT !.to = h.bridge, !.bytes = Field(Unread(k)),
                                    !.mut = h.mut, !.stop = h.stop, !.st = "open",
                                    !.late = BridgeLeft(h.bridge)]]
    /\ bridge' = [bridge EXCEPT ![h.bridge].mailbox = Append(@, k)]
    /\ conns' = [conns EXCEPT ![k].buf = Field(Unread(k)),
                              ![k].rpos = @ + 1 + Unread(k)[1],
                              ![k].lateFwd = (Lookup(conns[k].id) = NoHandle),
                              ![k].spc = "bawait"]
    /\ UNCHANGED <<otherVars, localVars, uhandle, router, cmds, admin>>

\* router.rs 181-197, remote.rs 159-164: try_handle_message reads the size
\* and the body; handle.send(msg_buffer) creates its oneshot and enqueues
\* (bytes, the handle's flags, oneshot sender)
ConnForward(k) ==
    LET h == conns[k].handle IN
    /\ conns[k].spc = "readmsg"
    /\ Len(Unread(k)) >= 1
    /\ ~TooLarge(Unread(k)[1])
    /\ FieldReady(Unread(k))
    /\ ~bridge[h.bridge].rxClosed
    /\ Len(bridge[h.bridge].mailbox) < MailboxCap
    /\ breq' = [breq EXCEPT ![k] =
                    [NewBReq EXCEPT !.to = h.bridge, !.bytes = Field(Unread(k)),
                                    !.mut = h.mut, !.stop = h.stop, !.st = "open",
                                    !.late = BridgeLeft(h.bridge)]]
    /\ bridge' = [bridge EXCEPT ![h.bridge].mailbox = Append(@, k)]
    /\ conns' = [conns EXCEPT ![k].buf = Field(Unread(k)),
                              ![k].rpos = @ + 1 + Unread(k)[1],
                              ![k].lateFwd = (Lookup(conns[k].id) = NoHandle),
                              ![k].spc = "bawait"]
    /\ UNCHANGED <<otherVars, localVars, uhandle, router, cmds, admin>>

\* router.rs 186-189: the announced size exceeds max_msg_size; the worker
\* returns Err(Error::Recv) without reading the body
ConnOversize(k) ==
    /\ conns[k].spc = "readmsg"
    /\ Len(Unread(k)) >= 1
    /\ TooLarge(Unread(k)[1])
    /\ conns' = [conns EXCEPT ![k] = WorkerGone(@, "oversize")]
    /\ UNCHANGED <<otherVars, localVars, bridge, uhandle, breq, router, cmds, admin>>

\* router.rs 181-200, remote.rs 165-169: the body is read but the bridge's
\* mailbox is closed: Err(Error::Send); the worker returns and drops the
\* stream
ConnBridgeSendFail(k) ==
    /\ conns[k].spc = "readmsg"
    /\ Len(Unread(k)) >= 1
    /\ ~TooLarge(Unread(k)[1])
    /\ FieldReady(Unread(k))
    /\ bridge[conns[k].handle.bridge].rxClosed
    /\ conns' = [conns EXCEPT ![k] = WorkerGone(@, "sendfail")]
    /\ UNCHANGED <<otherVars, localVars, bridge, uhandle, breq, router, cmds, admin>>

\* router.rs 197-212: the bridge answered Ok(bytes); the size and the body are
\* written, the worker returns and drops the stream
ConnWriteReply(k) ==
    /\ conns[k].spc = "bawait"
    /\ breq[k].st = "filled"
    /\ breq[k].val[1] = "Ok"
    /\ conns' = [conns EXCEPT ![k] =
                    WorkerGone([@ EXCEPT !.s2c = <<Len(breq[k].val[2])>>
                                                    \o breq[k].val[2]],
                               "replied")]
    /\ UNCHANGED <<otherVars, localVars, bridge, uhandle, breq, router, cmds, admin>>

\* router.rs 120-121, 202-207: msg_read_timeout elapses between write_u32 and
\* write_all: the stream is dropped with the size written and no body
ConnTimeoutMidReply(k) ==
    /\ conns[k].spc = "bawait"
    /\ breq[k].st = "filled"
    /\ breq[k].val[1] = "Ok"
    /\ conns' = [conns EXCEPT ![k] =
                    WorkerGone([@ EXCEPT !.s2c = <<Len(breq[k].val[2])>>],
                               "midreply")]
    /\ UNCHANGED <<otherVars, localVars, bridge, uhandle, breq, router, cmds, admin>>

\* variant of ConnBridgeFail: the failure is reported to the client in a frame
ConnBridgeFailReported(k) ==
    /\ conns[k].spc = "bawait"
    /\ breq[k].st \in {"filled", "closed"}
    /\ breq[k].st = "filled" => breq[k].val[1] # "Ok"
    /\ conns' = [conns EXCEPT ![k] =
                    WorkerGone([@ EXCEPT !.s2c = <<2, 1, 0>>], "bridgefail")]
    /\ UNCHANGED <<otherVars, localVars, bridge, uhandle, breq, router, cmds, admin>>

\* router.rs 197-200, remote.rs 171-174: the bridge answered Err, or dropped
\* the oneshot sender; the worker returns Err(Error::Send) and writes nothing
ConnBridgeFail(k) ==
    /\ conns[k].spc = "bawait"
    /\ breq[k].st \in {"filled", "closed"}
    /\ breq[k].st = "filled" => breq[k].val[1] # "Ok"
    /\ conns' = [conns EXCEPT ![k] = WorkerGone(@, "bridgefail")]
    /\ UNCHANGED <<otherVars, localVars, bridge, uhandle, breq, router, cmds, admin>>

\* variant of ConnTimeout: the timeout covers the reads of the request and
\* not the wait for the bridge
ConnTimeoutReadOnly(k) ==
    /\ conns[k].spc \in {"readid", "readmsg"}
    /\ conns' = [conns EXCEPT ![k] = WorkerGone(@, "timeout")]
    /\ UNCHANGED <<otherVars, localVars, bridge, uhandle, breq, router, cmds, admin>>

\* variant of ConnTimeout: the timeout covers the reading of the peer id only
ConnTimeoutIdOnly(k) ==
    /\ conns[k].spc = "readid"
    /\ conns' = [conns EXCEPT ![k] = WorkerGone(@, "timeout")]
    /\ UNCHANGED <<otherVars, localVars, bridge, uhandle, breq, router, cmds, admin>>

\* router.rs 120-121: msg_read_timeout elapses while the worker waits for
\* bytes or for the bridge; the worker's future is dropped, and with it the
\* stream and the receiver of a pending bridge request
ConnTimeout(k) ==
    /\ conns[k].spc \in {"readid", "readmsg", "bawait"}
    /\ conns' = [conns EXCEPT ![k] = WorkerGone(@, "timeout")]
    /\ breq' = IF conns[k].spc = "bawait"
               THEN [breq EXCEPT ![k].rxDropped = TRUE]
               ELSE breq
    /\ UNCHANGED <<otherVars, localVars, bridge, uhandle, router, cmds, admin>>

(* ------------------- RemoteHandle::send: remote clients --------------- *)

\* router.rs 398-405: connect to the router's host with the address of peer
\* id key, one that attach returned or one made up; Err(Error::Connect) when
\* nothing listens there
ClientConnect(k, key) ==
    /\ conns[k].cpc = "unused"
    /\ \A j \in 1..(k - 1) : conns[j].cpc # "unused"
    /\ key \in admin.addrs \cup {UnknownKey}
    /\ IF router.listening
       THEN /\ conns' = [conns EXCEPT ![k] =
                            [@ EXCEPT !.cpc = "connected", !.key = key,
                                      !.spc = "backlog",
                                      !.afterRevoke = key \in admin.revoked,
                                      !.afterStop = admin.stopped]]
            /\ router' = [router EXCEPT !.backlog = Append(@, k)]
       ELSE /\ conns' = [conns EXCEPT ![k] =
                            ClientGone([@ EXCEPT !.key = key,
                                                 !.afterRevoke = key \in admin.revoked,
                                                 !.afterStop = admin.stopped],
                                       RErr("Connect"))]
            /\ UNCHANGED router
    /\ UNCHANGED <<otherVars, localVars, bridge, uhandle, breq, cmds, admin>>

\* router.rs 407-422: the peer id is hex-decoded and written behind its length
ClientWriteId(k) ==
    /\ conns[k].cpc = "connected"
    /\ conns' = [conns EXCEPT
                    ![k].c2s = @ \o <<Len(HexDecode(conns[k].key))>>
                                 \o HexDecode(conns[k].key),
                    ![k].cpc = "wroteid"]
    /\ UNCHANGED <<otherVars, localVars, bridge, uhandle, breq, router, cmds, admin>>

\* router.rs 424-438: the encoded message, body, is written behind its length
\* and the stream is flushed
ClientWriteMsg(k, body) ==
    /\ conns[k].cpc = "wroteid"
    /\ body \in Bodies
    /\ conns' = [conns EXCEPT
                    ![k].body = body,
                    ![k].c2s = @ \o <<Len(body)>> \o body,
                    ![k].cpc = "flushed"]
    /\ UNCHANGED <<otherVars, localVars, bridge, uhandle, breq, router, cmds, admin>>

\* router.rs 424-433: a client that stops in the middle of its frame: the
\* length of body and all of body but its last byte are written, and the
\* stream is kept open
ClientWritePartial(k, body) ==
    /\ conns[k].cpc = "wroteid"
    /\ body \in Bodies
    /\ conns' = [conns EXCEPT
                    ![k].body = body,
                    ![k].c2s = @ \o <<Len(body)>> \o SubSeq(body, 1, Len(body) - 1),
                    ![k].cpc = "stalled"]
    /\ UNCHANGED <<otherVars, localVars, bridge, uhandle, breq, router, cmds, admin>>

\* router.rs 414-438: a write on a stream the other side has dropped can fail:
\* Err(Error::Send)
ClientWriteFail(k) ==
    /\ conns[k].cpc \in {"connected", "wroteid"}
    /\ conns[k].spc = "closed"
    /\ conns' = [conns EXCEPT ![k] = ClientGone(@, RErr("Send"))]
    /\ UNCHANGED <<otherVars, localVars, bridge, uhandle, breq, router, cmds, admin>>

\* router.rs 440-451: the reply frame is read and decoded
ClientReadReply(k) ==
    /\ conns[k].cpc = "flushed"
    /\ FieldReady(conns[k].s2c)
    /\ conns' = [conns EXCEPT ![k] =
                    ClientGone(@, IF DecodeResult(Field(conns[k].s2c)) = NoResult
                                  THEN RErr("Decode")
                                  ELSE ROk(DecodeResult(Field(conns[k].s2c))))]
    /\ UNCHANGED <<otherVars, localVars, bridge, uhandle, breq, router, cmds, admin>>

\* router.rs 440-449: the stream ended before a whole reply frame:
\* Err(Error::Recv)
ClientReadFail(k) ==
    /\ conns[k].cpc = "flushed"
    /\ conns[k].spc = "closed"
    /\ ~FieldReady(conns[k].s2c)
    /\ conns' = [conns EXCEPT ![k] = ClientGone(@, RErr("Recv"))]
    /\ UNCHANGED <<otherVars, localVars, bridge, uhandle, breq, router, cmds, admin>>

(* --------------------------- specification ---------------------------- *)

\* the local runtime: actor 1 and its clients
Next ==
    \/ WorkerReady(1)
    \/ WorkerDropped(1)
    \/ SpawnReturn(1)
    \/ SpawnFail(1)
    \/ \E c \in Clients, m \in Message : SendStart(c, m)
    \/ \E c \in Clients : SendEnqueue(c)
    \/ \E c \in Clients : SendFail(c)
    \/ \E c \in Clients : SendReply(c)
    \/ \E c \in Clients : SendRecvFail(c)
    \/ \E c \in Clients : DropHandle(c)
    \/ WorkerRecvTask(1)
    \/ WorkerRecvTaskMut(1)
    \/ \E s \in Slots, h \in HandlerReturns : HandlerReturn(1, s, h)
    \/ \E s \in Slots, h \in HandlerMutReturns, st \in ActorStates :
          HandlerMutReturn(1, s, h, st)
    \/ \E s \in Slots : HandlerPanic(1, s)
    \/ WorkerRecvPing(1)
    \/ WorkerRecvStop(1)
    \/ WorkerRecvNone(1)
    \/ WorkerExit(1)

Spec == Init /\ [][Next]_vars

\* an actor whose replies tell the messages apart: handler(x) is Ok(x),
\* handler_mut(x) is Err(x) and leaves the state as it is
EchoReply(m) ==
    IF m[1] = "Task" THEN OkTask(m[2])
    ELSE IF m[1] = "TaskMut" THEN ErrTask(m[2])
    ELSE OkAccepted

\* the local runtime with that actor
NextEcho ==
    \/ WorkerReady(1)
    \/ SpawnReturn(1)
    \/ \E c \in Clients, m \in Message : SendStart(c, m)
    \/ \E c \in Clients : SendEnqueue(c)
    \/ \E c \in Clients : SendFail(c)
    \/ \E c \in Clients : SendReply(c)
    \/ \E c \in Clients : SendRecvFail(c)
    \/ \E c \in Clients : SendAbandon(c)
    \/ \E c \in Clients : DropHandle(c)
    \/ WorkerRecvTask(1)
    \/ WorkerRecvTaskMut(1)
    \/ \E s \in Slots : HandlerReturn(1, s, HOk(slots[s].msg[2]))
    \/ \E s \in Slots : HandlerMutReturn(1, s, HErr(slots[s].msg[2]), actor[1].state)
    \/ WorkerRecvPing(1)
    \/ WorkerRecvStop(1)
    \/ WorkerRecvNone(1)
    \/ WorkerExit(1)

SpecEcho == Init /\ [][NextEcho]_vars

\* the steps of actor 1's worker task
WorkerNext ==
    \/ WorkerReady(1)
    \/ WorkerRecvTask(1)
    \/ WorkerRecvTaskMut(1)
    \/ \E s \in Slots, h \in HandlerReturns : HandlerReturn(1, s, h)
    \/ \E s \in Slots, h \in HandlerMutReturns, st \in ActorStates :
          HandlerMutReturn(1, s, h, st)
    \/ \E s \in Slots : HandlerPanic(1, s)
    \/ WorkerRecvPing(1)
    \/ WorkerRecvStop(1)
    \/ WorkerRecvNone(1)
    \/ WorkerExit(1)

\* the local runtime with callers that may give up waiting for a reply
NextLive ==
    \/ Next
    \/ \E c \in Clients : SendAbandon(c)

\* an actor that falls behind callers who stop waiting for their replies and
\* send again
NextBurst ==
    \/ WorkerReady(1)
    \/ SpawnReturn(1)
    \/ \E c \in Clients, m \in {Task(1), Stop} : SendStartBurst(c, m)
    \/ \E c \in Clients : SendEnqueue(c)
    \/ \E c \in Clients : SendFail(c)
    \/ \E c \in Clients : SendReply(c)
    \/ \E c \in Clients : SendRecvFail(c)
    \/ \E c \in Clients : SendAbandon(c)
    \/ WorkerRecvTask(1)
    \/ \E s \in Slots, h \in HandlerReturns : HandlerReturn(1, s, h)
    \/ \E s \in Slots : HandlerPanic(1, s)
    \/ WorkerRecvStop(1)
    \/ WorkerExit(1)

\* local.rs 27, 92-95: the worker is a task of its own and its handlers
\* return or panic; a sender that waits for a permit of the channel gets the
\* permit that is freed (tokio's semaphore serves its waiters in order)
SpecBurst ==
    /\ Init
    /\ [][NextBurst]_vars
    /\ WF_vars(WorkerNext)
    /\ \A c \in Clients : WF_vars(SendEnqueue(c))

\* local.rs 27: the worker is a task of the tokio runtime, which polls a task
\* that can make progress; a handler that was called returns or panics
SpecLive == Init /\ [][NextLive]_vars /\ WF_vars(WorkerNext)

\* remote.rs 37-42, 88-98 and router.rs 56-152: the state once spawn_untyped
\* returned and Router::with_netlayer returned: the workers
\* wait for messages, the bridge holds its inner_handle, the caller dropped
\* the LocalHandle and kept the UntypedHandle with the flags of
\* HandleOpts::new, and the router listens with an empty peer table
InitRouter ==
    /\ actor = [a \in Actors |->
                    [NewActor(0) EXCEPT !.wpc = "recv", !.conf = "ok",
                                        !.spawnpc = "returned",
                                        !.handles = {BridgeSender(a)}]]
    /\ slots = [s \in Slots |-> FreshSlot]
    /\ nextSlot = 1
    /\ sender = [c \in Senders |->
                    IF c \in Clients THEN [NewSender EXCEPT !.pc = "dropped"]
                    ELSE [NewSender EXCEPT !.pc = "idle"]]
    /\ bridge = [b \in Actors |-> [NewBridge EXCEPT !.pc = "recv"]]
    /\ uhandle = [b \in Actors |-> DefaultHandle(b)]
    /\ breq = [r \in Reqs |-> NewBReq]
    /\ router = [NewRouter EXCEPT !.pc = "loop", !.listening = TRUE]
    /\ cmds = [n \in Cmds |-> NewCmd]
    /\ admin = NewAdmin
    /\ conns = [k \in Reqs |-> NewConn]
    /\ InitOtherUnused

\* a router in front of a bridged actor; the handle attached carries the flags
\* of HandleOpts::new, so the bridge answers TaskMut and Stop itself and the
\* actor's worker takes only Task and Ping
NextRouter ==
    \/ \E b \in Actors : AdminAttach(b)
    \/ \E key \in PeerKeys : AdminRevoke(key)
    \/ AdminStop
    \/ AdminReply
    \/ AdminRecvFail
    \/ RouterRecvStop
    \/ RouterRecvAttach
    \/ RouterAttachAddrFail
    \/ RouterRecvRevoke
    \/ RouterAccept
    \/ RouterExit
    \/ \E k \in Reqs, key \in PeerKeys \cup {UnknownKey} : ClientConnect(k, key)
    \/ \E k \in Reqs : ClientWriteId(k)
    \/ \E k \in Reqs, body \in Bodies : ClientWriteMsg(k, body)
    \/ \E k \in Reqs : ClientWriteFail(k)
    \/ \E k \in Reqs : ClientReadReply(k)
    \/ \E k \in Reqs : ClientReadFail(k)
    \/ \E k \in Reqs : ConnLookup(k)
    \/ \E k \in Reqs : ConnLookupMiss(k)
    \/ \E k \in Reqs : ConnForward(k)
    \/ \E k \in Reqs : ConnOversize(k)
    \/ \E k \in Reqs : ConnWriteReply(k)
    \/ \E k \in Reqs : ConnTimeoutMidReply(k)
    \/ \E k \in Reqs : ConnBridgeFail(k)
    \/ \E k \in Reqs : ConnTimeout(k)
    \/ \E b \in Actors : BridgeRecvUndecodable(b)
    \/ \E b \in Actors : BridgeRecvNotAllowed(b)
    \/ \E b \in Actors : BridgeForward(b)
    \/ \E b \in Actors : BridgeReply(b)
    \/ \E b \in Actors : SendEnqueue(BridgeSender(b))
    \/ \E b \in Actors : SendReply(BridgeSender(b))
    \/ \E a \in Actors : WorkerRecvTask(a)
    \/ \E a \in Actors, s \in Slots, h \in HandlerReturns : HandlerReturn(a, s, h)
    \/ \E a \in Actors : WorkerRecvPing(a)

SpecRouter == InitRouter /\ [][NextRouter]_vars

\* as InitRouter, after the holder of the UntypedHandle called
\* allow_stop(true) on it (remote.rs 191-193)
InitRouterStop ==
    /\ actor = [a \in Actors |->
                    [NewActor(0) EXCEPT !.wpc = "recv", !.conf = "ok",
                                        !.spawnpc = "returned",
                                        !.handles = {BridgeSender(a)}]]
    /\ slots = [s \in Slots |-> FreshSlot]
    /\ nextSlot = 1
    /\ sender = [c \in Senders |->
                    IF c \in Clients THEN [NewSender EXCEPT !.pc = "dropped"]
                    ELSE [NewSender EXCEPT !.pc = "idle"]]
    /\ bridge = [b \in Actors |-> [NewBridge EXCEPT !.pc = "recv"]]
    /\ uhandle = [b \in Actors |-> Handle(b, FALSE, TRUE)]
    /\ breq = [r \in Reqs |-> NewBReq]
    /\ router = [NewRouter EXCEPT !.pc = "loop", !.listening = TRUE]
    /\ cmds = [n \in Cmds |-> NewCmd]
    /\ admin = NewAdmin
    /\ conns = [k \in Reqs |-> NewConn]
    /\ InitOtherUnused

\* a router that is left running, in front of a bridge that relays Stop and
\* an actor whose handlers may panic: the actor's worker and the bridge's
\* worker can both end while clients keep sending
NextRouterStop ==
    \/ \E b \in Actors : AdminAttach(b)
    \/ AdminReply
    \/ RouterRecvAttach
    \/ RouterAccept
    \/ \E k \in Reqs, key \in PeerKeys : ClientConnect(k, key)
    \/ \E k \in Reqs : ClientWriteId(k)
    \/ \E k \in Reqs, body \in Bodies \ {Oversized} : ClientWriteMsg(k, body)
    \/ \E k \in Reqs : ClientWriteFail(k)
    \/ \E k \in Reqs : ClientReadReply(k)
    \/ \E k \in Reqs : ClientReadFail(k)
    \/ \E k \in Reqs : ConnLookup(k)
    \/ \E k \in Reqs : ConnForward(k)
    \/ \E k \in Reqs : ConnBridgeSendFail(k)
    \/ \E k \in Reqs : ConnWriteReply(k)
    \/ \E k \in Reqs : ConnTimeoutMidReply(k)
    \/ \E k \in Reqs : ConnBridgeFail(k)
    \/ \E k \in Reqs : ConnTimeout(k)
    \/ \E b \in Actors : BridgeRecvUndecodable(b)
    \/ \E b \in Actors : BridgeRecvNotAllowed(b)
    \/ \E b \in Actors : BridgeForward(b)
    \/ \E b \in Actors : BridgeReply(b)
    \/ \E b \in Actors : BridgeExit(b)
    \/ \E b \in Actors : SendEnqueue(BridgeSender(b))
    \/ \E b \in Actors : SendFail(BridgeSender(b))
    \/ \E b \in Actors : SendReply(BridgeSender(b))
    \/ \E b \in Actors : SendRecvFail(BridgeSender(b))
    \/ \E a \in Actors : WorkerRecvTask(a)
    \/ \E a \in Actors, s \in Slots, h \in HandlerReturns : HandlerReturn(a, s, h)
    \/ \E a \in Actors, s \in Slots : HandlerPanic(a, s)
    \/ \E a \in Actors : WorkerRecvPing(a)
    \/ \E a \in Actors : WorkerRecvStop(a)
    \/ \E a \in Actors : WorkerExit(a)

SpecRouterStop == InitRouterStop /\ [][NextRouterStop]_vars

(* ------------------ UntypedHandle: callers of the bridge -------------- *)

\* the requests queued at bridge b are marked: a flag changes under them
ToggledWhileQueued(b) ==
    [r \in Reqs |-> IF InMailbox(bridge[b].mailbox, r)
                    THEN [breq[r] EXCEPT !.toggled = TRUE]
                    ELSE breq[r]]

\* variant of AllowMut: the flag lives in the bridge and is shared by every
\* clone of the handle, the ones in the peer table included
AllowMutShared(b, allow) ==
    /\ uhandle[b].mut # allow
    /\ uhandle' = [uhandle EXCEPT ![b].mut = allow]
    /\ breq' = ToggledWhileQueued(b)
    /\ router' = [router EXCEPT !.peers =
                    [k \in DOMAIN @ |->
                        IF @[k].bridge = b THEN [@[k] EXCEPT !.mut = allow]
                        ELSE @[k]]]
    /\ UNCHANGED <<otherVars, localVars, bridge, cmds, admin, conns>>

\* remote.rs 182-184: allow_mut(allow) on the caller's handle
AllowMut(b, allow) ==
    /\ uhandle[b].mut # allow
    /\ uhandle' = [uhandle EXCEPT ![b].mut = allow]
    /\ breq' = ToggledWhileQueued(b)
    /\ UNCHANGED <<otherVars, localVars, bridge, router, cmds, admin, conns>>

\* remote.rs 191-193: allow_stop(allow) on the caller's handle
AllowStop(b, allow) ==
    /\ uhandle[b].stop # allow
    /\ uhandle' = [uhandle EXCEPT ![b].stop = allow]
    /\ breq' = ToggledWhileQueued(b)
    /\ UNCHANGED <<otherVars, localVars, bridge, router, cmds, admin, conns>>

\* remote.rs 159-169: UntypedHandle::send(bytes) by the holder of bridge b's
\* handle: the oneshot is created and (bytes, the handle's flags, oneshot
\* sender) is sent to the bridge; on a closed mailbox the call returns
\* Err(Error::Send)
UntypedSend(r, b, bytes) ==
    /\ breq[r].st = "unused"
    /\ \A j \in 1..(r - 1) : breq[j].st # "unused"
    /\ bytes \in Bodies
    /\ ~bridge[b].txDropped
    /\ IF bridge[b].rxClosed
       THEN /\ breq' = [breq EXCEPT ![r] =
                            [NewBReq EXCEPT !.to = b, !.bytes = bytes,
                                            !.mut = uhandle[b].mut,
                                            !.stop = uhandle[b].stop,
                                            !.st = "closed",
                                            !.late = BridgeLeft(b),
                                            !.alone = (actor[b].handles =
                                                        {BridgeSender(b)}),
                                            !.ret = BErr("Send")]]
            /\ UNCHANGED bridge
       ELSE /\ breq' = [breq EXCEPT ![r] =
                            [NewBReq EXCEPT !.to = b, !.bytes = bytes,
                                            !.mut = uhandle[b].mut,
                                            !.stop = uhandle[b].stop,
                                            !.late = BridgeLeft(b),
                                            !.alone = (actor[b].handles =
                                                        {BridgeSender(b)}),
                                            !.st = "open"]]
            /\ bridge' = [bridge EXCEPT ![b].mailbox = Append(@, r)]
    /\ UNCHANGED <<otherVars, localVars, uhandle, router, cmds, admin, conns>>

\* remote.rs 171-174: receiver.await yields what the bridge sent
UntypedReply(r) ==
    /\ breq[r].st = "filled"
    /\ breq[r].ret = NoBytes
    /\ breq' = [breq EXCEPT ![r].ret = breq[r].val]
    /\ UNCHANGED <<otherVars, localVars, bridge, uhandle, router, cmds, admin, conns>>

\* remote.rs 171-174: the bridge dropped the oneshot sender: Err(Error::Recv)
UntypedRecvFail(r) ==
    /\ breq[r].st = "closed"
    /\ breq[r].ret = NoBytes
    /\ breq' = [breq EXCEPT ![r].ret = BErr("Recv")]
    /\ UNCHANGED <<otherVars, localVars, bridge, uhandle, router, cmds, admin, conns>>

\* remote.rs 171-174: the caller drops the future of UntypedHandle::send
\* while it awaits the reply (the timeout of a connection worker does so):
\* the oneshot receiver is dropped, the request stays in the bridge's mailbox
UntypedAbandon(r) ==
    /\ breq[r].st = "open"
    /\ breq[r].ret = NoBytes
    /\ ~breq[r].rxDropped
    /\ breq' = [breq EXCEPT ![r].rxDropped = TRUE]
    /\ UNCHANGED <<otherVars, localVars, bridge, uhandle, router, cmds, admin, conns>>

\* the last UntypedHandle of bridge b is dropped; no call on it is pending
UntypedDrop(b) ==
    /\ ~bridge[b].txDropped
    /\ \A r \in Reqs :
          breq[r].st = "unused" \/ breq[r].ret # NoBytes \/ breq[r].rxDropped
    /\ bridge' = [bridge EXCEPT ![b].txDropped = TRUE]
    /\ UNCHANGED <<otherVars, localVars, uhandle, breq, router, cmds, admin, conns>>

\* variant of BridgeRecvNone: the loop is left as soon as every UntypedHandle
\* is gone, whatever is still queued
BridgeRecvNoneDiscards(b) ==
    /\ bridge[b].pc = "recv"
    /\ bridge[b].txDropped
    /\ bridge' = [bridge EXCEPT ![b].pc = "exiting"]
    /\ UNCHANGED <<otherVars, localVars, uhandle, breq, router, cmds, admin, conns>>

\* remote.rs 45: receiver.recv() yields None once the bridge's mailbox is
\* empty and every UntypedHandle is gone; the loop is left
BridgeRecvNone(b) ==
    /\ bridge[b].pc = "recv"
    /\ bridge[b].mailbox = <<>>
    /\ bridge[b].txDropped
    /\ bridge' = [bridge EXCEPT ![b].pc = "exiting"]
    /\ UNCHANGED <<otherVars, localVars, uhandle, breq, router, cmds, admin, conns>>

\* remote.rs 37-42, 88-98: the state once spawn_untyped returned
\* (local_handle, UntypedHandle): both workers wait for messages, the bridge
\* holds inner_handle, client 1 holds local_handle, and the UntypedHandle
\* carries the flags of HandleOpts::new; there is no router
InitBridge ==
    /\ actor = [a \in Actors |->
                    [NewActor(0) EXCEPT !.wpc = "recv", !.conf = "ok",
                                        !.spawnpc = "returned",
                                        !.handles = {a, BridgeSender(a)}]]
    /\ slots = [s \in Slots |-> FreshSlot]
    /\ nextSlot = 1
    /\ sender = [c \in Senders |->
                    IF c \in Actors \/ c \notin Clients
                    THEN [NewSender EXCEPT !.pc = "idle"]
                    ELSE [NewSender EXCEPT !.pc = "dropped"]]
    /\ bridge = [b \in Actors |-> [NewBridge EXCEPT !.pc = "recv"]]
    /\ uhandle = [b \in Actors |-> DefaultHandle(b)]
    /\ breq = [r \in Reqs |-> NewBReq]
    /\ router = NewRouter
    /\ cmds = [n \in Cmds |-> NewCmd]
    /\ admin = NewAdmin
    /\ conns = [k \in Reqs |-> NewConn]
    /\ InitOtherUnused

\* a bridged actor, the holder of its UntypedHandle, who raises the flags and
\* sends encoded messages, and the holder of its LocalHandle, who can stop the
\* actor behind the bridge's back; a handle outlives both workers here, so
\* neither mailbox closes for want of senders
NextBridge ==
    \/ \E b \in Actors : AllowMut(b, TRUE)
    \/ \E b \in Actors : AllowStop(b, TRUE)
    \/ \E r \in Reqs, b \in Actors, bytes \in Bodies \ {Oversized} :
          UntypedSend(r, b, bytes)
    \/ \E r \in Reqs : UntypedReply(r)
    \/ \E r \in Reqs : UntypedRecvFail(r)
    \/ \E b \in Actors : BridgeRecvUndecodable(b)
    \/ \E b \in Actors : BridgeRecvNotAllowed(b)
    \/ \E b \in Actors : BridgeForward(b)
    \/ \E b \in Actors : BridgeReply(b)
    \/ \E b \in Actors : BridgeExit(b)
    \/ \E a \in Actors : SendStart(a, Stop)
    \/ \E c \in Actors \cup {BridgeSender(b) : b \in Actors} : SendEnqueue(c)
    \/ \E c \in Actors \cup {BridgeSender(b) : b \in Actors} : SendFail(c)
    \/ \E c \in Actors \cup {BridgeSender(b) : b \in Actors} : SendReply(c)
    \/ \E c \in Actors \cup {BridgeSender(b) : b \in Actors} : SendRecvFail(c)
    \/ \E a \in Actors : WorkerRecvTask(a)
    \/ \E a \in Actors : WorkerRecvTaskMut(a)
    \/ \E a \in Actors, s \in Slots, h \in HandlerReturns : HandlerReturn(a, s, h)
    \/ \E a \in Actors, s \in Slots, h \in HandlerMutReturns, st \in ActorStates :
          HandlerMutReturn(a, s, h, st)
    \/ \E a \in Actors, s \in Slots : HandlerPanic(a, s)
    \/ \E a \in Actors : WorkerRecvPing(a)
    \/ \E a \in Actors : WorkerRecvStop(a)
    \/ \E a \in Actors : WorkerExit(a)

SpecBridge == InitBridge /\ [][NextBridge]_vars

\* a bridged actor whose handles are dropped: the holder of the LocalHandle
\* drops it, the holder of the UntypedHandle sends through it and drops it
\* in the end; either worker ends when its mailbox has no sender left
NextBridgeDrop ==
    \/ \E a \in Actors : DropHandle(a)
    \/ \E b \in Actors : UntypedDrop(b)
    \/ \E r \in Reqs, b \in Actors, bytes \in Bodies \ {Oversized} :
          UntypedSend(r, b, bytes)
    \/ \E r \in Reqs : UntypedReply(r)
    \/ \E b \in Actors : BridgeRecvUndecodable(b)
    \/ \E b \in Actors : BridgeRecvNotAllowed(b)
    \/ \E b \in Actors : BridgeForward(b)
    \/ \E b \in Actors : BridgeReply(b)
    \/ \E b \in Actors : BridgeRecvNone(b)
    \/ \E b \in Actors : BridgeExit(b)
    \/ \E a \in Actors, m \in {Task(1), Ping} : SendStart(a, m)
    \/ \E c \in Actors \cup {BridgeSender(b) : b \in Actors} : SendEnqueue(c)
    \/ \E c \in Actors \cup {BridgeSender(b) : b \in Actors} : SendFail(c)
    \/ \E c \in Actors \cup {BridgeSender(b) : b \in Actors} : SendReply(c)
    \/ \E c \in Actors \cup {BridgeSender(b) : b \in Actors} : SendRecvFail(c)
    \/ \E a \in Actors : WorkerRecvTask(a)
    \/ \E a \in Actors, s \in Slots, h \in HandlerReturns : HandlerReturn(a, s, h)
    \/ \E a \in Actors, s \in Slots : HandlerPanic(a, s)
    \/ \E a \in Actors : WorkerRecvPing(a)
    \/ \E a \in Actors : WorkerRecvNone(a)
    \/ \E a \in Actors : WorkerExit(a)

SpecBridgeDrop == InitBridge /\ [][NextBridgeDrop]_vars

\* a bridged actor whose UntypedHandle has its flags raised and lowered
\* while requests are on their way
NextBridgeOpts ==
    \/ \E b \in Actors, allow \in BOOLEAN : AllowMut(b, allow)
    \/ \E b \in Actors, allow \in BOOLEAN : AllowStop(b, allow)
    \/ \E r \in Reqs, b \in Actors, m \in {TaskMut(1), Stop} :
          UntypedSend(r, b, EncodeMsg(m))
    \/ \E r \in Reqs : UntypedReply(r)
    \/ \E r \in Reqs : UntypedRecvFail(r)
    \/ \E b \in Actors : BridgeRecvNotAllowed(b)
    \/ \E b \in Actors : BridgeForward(b)
    \/ \E b \in Actors : BridgeReply(b)
    \/ \E b \in Actors : BridgeExit(b)
    \/ \E b \in Actors : SendEnqueue(BridgeSender(b))
    \/ \E b \in Actors : SendFail(BridgeSender(b))
    \/ \E b \in Actors : SendReply(BridgeSender(b))
    \/ \E b \in Actors : SendRecvFail(BridgeSender(b))
    \/ \E a \in Actors : WorkerRecvTaskMut(a)
    \/ \E a \in Actors, s \in Slots, h \in HandlerMutReturns, st \in ActorStates :
          HandlerMutReturn(a, s, h, st)
    \/ \E a \in Actors, s \in Slots : HandlerPanic(a, s)
    \/ \E a \in Actors : WorkerRecvStop(a)
    \/ \E a \in Actors : WorkerExit(a)

SpecBridgeOpts == InitBridge /\ [][NextBridgeOpts]_vars

\* a router in front of a bridged actor whose owner keeps a clone of the
\* UntypedHandle and changes its flags before, between and after the
\* attach calls, while clients send TaskMut and Stop to the addresses
NextRouterOpts ==
    \/ \E b \in Actors, allow \in BOOLEAN : AllowMut(b, allow)
    \/ \E b \in Actors, allow \in BOOLEAN : AllowStop(b, allow)
    \/ \E b \in Actors : AdminAttach(b)
    \/ AdminReply
    \/ RouterRecvAttach
    \/ RouterAccept
    \/ \E k \in Reqs, key \in PeerKeys : ClientConnect(k, key)
    \/ \E k \in Reqs : ClientWriteId(k)
    \/ \E k \in Reqs, m \in {TaskMut(1), Stop} : ClientWriteMsg(k, EncodeMsg(m))
    \/ \E k \in Reqs : ClientReadReply(k)
    \/ \E k \in Reqs : ClientReadFail(k)
    \/ \E k \in Reqs : ConnLookup(k)
    \/ \E k \in Reqs : ConnForward(k)
    \/ \E k \in Reqs : ConnBridgeSendFail(k)
    \/ \E k \in Reqs : ConnWriteReply(k)
    \/ \E k \in Reqs : ConnBridgeFail(k)
    \/ \E b \in Actors : BridgeRecvNotAllowed(b)
    \/ \E b \in Actors : BridgeForward(b)
    \/ \E b \in Actors : BridgeReply(b)
    \/ \E b \in Actors : BridgeExit(b)
    \/ \E b \in Actors : SendEnqueue(BridgeSender(b))
    \/ \E b \in Actors : SendReply(BridgeSender(b))
    \/ \E a \in Actors : WorkerRecvTaskMut(a)
    \/ \E a \in Actors, s \in Slots : HandlerMutReturn(a, s, HNone, 1)
    \/ \E a \in Actors : WorkerRecvStop(a)
    \/ \E a \in Actors : WorkerExit(a)

SpecRouterOpts == InitRouter /\ [][NextRouterOpts]_vars

(* ------------- an exchange over a stream that buffers writes ---------- *)

WireUnchanged == UNCHANGED <<localVars, remoteVars, swarm, address>>

\* router.rs 398-411: connect succeeded and the peer id was hex-decoded; the
\* router accepted the stream and spawned its worker
WireConnect(key, body) ==
    /\ wire.cpc = "unused"
    /\ wire' = [wire EXCEPT !.cpc = "connected", !.spc = "readidlen",
                            !.key = key, !.body = body]
    /\ WireUnchanged

\* router.rs 413-416: stream.write_u16(id_len)
WireWriteIdLen ==
    /\ wire.cpc = "connected"
    /\ wire' = [wire EXCEPT !.cpc = "wroteidlen",
                            !.cbuf = @ \o <<Len(HexDecode(wire.key))>>]
    /\ WireUnchanged

\* router.rs 418-421: stream.write_all(&id)
WireWriteId ==
    /\ wire.cpc = "wroteidlen"
    /\ wire' = [wire EXCEPT !.cpc = "wroteid", !.cbuf = @ \o HexDecode(wire.key)]
    /\ WireUnchanged

\* router.rs 423-427: stream.write_u32(bytes.len())
WireWriteMsgLen ==
    /\ wire.cpc = "wroteid"
    /\ wire' = [wire EXCEPT !.cpc = "wrotemsglen",
                            !.cbuf = @ \o <<Len(wire.body)>>]
    /\ WireUnchanged

\* router.rs 429-432: stream.write_all(&bytes)
WireWriteMsg ==
    /\ wire.cpc = "wrotemsglen"
    /\ wire' = [wire EXCEPT !.cpc = "wrotemsg", !.cbuf = @ \o wire.body]
    /\ WireUnchanged

\* variant of WireFlush: send goes on to read without flushing
WireFlushSkipped ==
    /\ wire.cpc = "wrotemsg"
    /\ wire.spc # "closed"
    /\ wire' = [wire EXCEPT !.cpc = "readlen"]
    /\ WireUnchanged

\* router.rs 434-437: stream.flush(): what was written is delivered
WireFlush ==
    /\ wire.cpc = "wrotemsg"
    /\ wire.spc # "closed"
    /\ wire' = [wire EXCEPT !.cpc = "readlen", !.c2s = @ \o wire.cbuf,
                            !.cbuf = <<>>]
    /\ WireUnchanged

\* router.rs 413-437: the worker has dropped the stream; the flush, or a
\* write before it, fails: Err(Error::Send)
WireSendFail ==
    /\ wire.cpc \in {"connected", "wroteidlen", "wroteid", "wrotemsglen",
                      "wrotemsg"}
    /\ wire.spc = "closed"
    /\ wire' = [wire EXCEPT !.cpc = "done", !.cbuf = <<>>,
                            !.result = RErr("Send")]
    /\ WireUnchanged

\* router.rs 439-442: stream.read_u32() of the reply length
WireReadLen ==
    /\ wire.cpc = "readlen"
    /\ Len(wire.s2c) - wire.cpos >= 1
    /\ wire' = [wire EXCEPT !.cpc = "readbody", !.rlen = wire.s2c[wire.cpos + 1],
                            !.cpos = @ + 1]
    /\ WireUnchanged

\* router.rs 444-450: stream.read_exact of the reply body, which is decoded
WireReadBody ==
    /\ wire.cpc = "readbody"
    /\ Len(wire.s2c) - wire.cpos >= wire.rlen
    /\ LET bs == SubSeq(wire.s2c, wire.cpos + 1, wire.cpos + wire.rlen) IN
        wire' = [wire EXCEPT
                    !.cpc = "done", !.cpos = @ + wire.rlen,
                    !.result = IF DecodeResult(bs) = NoResult THEN RErr("Decode")
                               ELSE ROk(DecodeResult(bs))]
    /\ WireUnchanged

\* router.rs 439-447: the stream ended before the bytes the client waits
\* for: Err(Error::Recv)
WireReadFail ==
    /\ \/ wire.cpc = "readlen" /\ Len(wire.s2c) - wire.cpos < 1
       \/ wire.cpc = "readbody" /\ Len(wire.s2c) - wire.cpos < wire.rlen
    /\ wire.spc = "closed"
    /\ wire' = [wire EXCEPT !.cpc = "done", !.result = RErr("Recv")]
    /\ WireUnchanged

\* the delivered bytes the worker has not read
WireUnread == SubSeq(wire.c2s, wire.rpos + 1, Len(wire.c2s))

\* router.rs 159-162: try_read_id: stream.read_u16()
SrvReadIdLen ==
    /\ wire.spc = "readidlen"
    /\ Len(WireUnread) >= 1
    /\ wire' = [wire EXCEPT !.spc = "readid", !.idlen = WireUnread[1],
                            !.rpos = @ + 1]
    /\ WireUnchanged

\* router.rs 164-170: try_read_id: read_exact of the id, hex::encode
SrvReadId ==
    /\ wire.spc = "readid"
    /\ Len(WireUnread) >= wire.idlen
    /\ wire' = [wire EXCEPT !.spc = "lookup",
                            !.id = HexEncode(SubSeq(WireUnread, 1, wire.idlen)),
                            !.rpos = @ + wire.idlen]
    /\ WireUnchanged

\* router.rs 130-136: the lookup in the peer table; an unknown peer ends the
\* worker
SrvLookup ==
    /\ wire.spc = "lookup"
    /\ wire' = [wire EXCEPT !.spc = IF Lookup(wire.id) = NoHandle
                                    THEN "closed" ELSE "readmsglen"]
    /\ WireUnchanged

\* router.rs 181-189: stream.read_u32() and the size check
SrvReadMsgLen ==
    /\ wire.spc = "readmsglen"
    /\ Len(WireUnread) >= 1
    /\ wire' = [wire EXCEPT !.spc = IF TooLarge(WireUnread[1])
                                    THEN "closed" ELSE "readmsg",
                            !.msglen = WireUnread[1], !.rpos = @ + 1]
    /\ WireUnchanged

\* router.rs 191-197: read_exact of the body; handle.send(msg_buffer) begins
SrvReadMsg ==
    /\ wire.spc = "readmsg"
    /\ Len(WireUnread) >= wire.msglen
    /\ wire' = [wire EXCEPT !.spc = "bawait",
                            !.buf = SubSeq(WireUnread, 1, wire.msglen),
                            !.rpos = @ + wire.msglen]
    /\ WireUnchanged

\* router.rs 197-200: handle.send returned Ok(res), the encoded result
SrvBridgeReturn(res) ==
    /\ wire.spc = "bawait"
    /\ wire' = [wire EXCEPT !.spc = "writelen", !.res = res]
    /\ WireUnchanged

\* router.rs 197-200: handle.send returned an error; the worker returns
SrvBridgeFail ==
    /\ wire.spc = "bawait"
    /\ wire' = [wire EXCEPT !.spc = "closed"]
    /\ WireUnchanged

\* router.rs 202-205: stream.write_u32(res.len())
SrvWriteLen ==
    /\ wire.spc = "writelen"
    /\ wire' = [wire EXCEPT !.spc = "writebody", !.sbuf = @ \o <<Len(wire.res)>>]
    /\ WireUnchanged

\* router.rs 207-210: stream.write_all(&res)
SrvWriteBody ==
    /\ wire.spc = "writebody"
    /\ wire' = [wire EXCEPT !.spc = "return", !.sbuf = @ \o wire.res]
    /\ WireUnchanged

\* router.rs 212: Ok(()) without a flush: the stream is dropped; whether the
\* bytes it still buffers are delivered is the transport's choice
SrvReturn(delivered) ==
    /\ wire.spc = "return"
    /\ wire' = [wire EXCEPT !.spc = "closed", !.sbuf = <<>>,
                            !.s2c = IF delivered THEN @ \o wire.sbuf ELSE @]
    /\ WireUnchanged

\* router.rs 119-139: the timeout expires; the worker and its stream are
\* dropped
SrvTimeout ==
    /\ wire.spc \in {"readidlen", "readid", "lookup", "readmsglen", "readmsg",
                      "bawait", "writelen", "writebody", "return"}
    /\ wire' = [wire EXCEPT !.spc = "closed", !.sbuf = <<>>]
    /\ WireUnchanged

\* a running router with one actor attached, and no exchange yet
InitWire ==
    /\ actor = [a \in Actors |-> NewActor(0)]
    /\ slots = [s \in Slots |-> FreshSlot]
    /\ nextSlot = 1
    /\ sender = [c \in Senders |-> NewSender]
    /\ bridge = [b \in Actors |-> NewBridge]
    /\ uhandle = [b \in Actors |-> DefaultHandle(b)]
    /\ breq = [r \in Reqs |-> NewBReq]
    /\ router = [NewRouter EXCEPT
                    !.pc = "loop", !.listening = TRUE, !.minted = 1,
                    !.peers = [k \in PeerKeys |->
                                IF k = HexEncode(PeerBytes(1))
                                THEN DefaultHandle(1) ELSE NoHandle]]
    /\ cmds = [n \in Cmds |-> NewCmd]
    /\ admin = NewAdmin
    /\ conns = [k \in Reqs |-> NewConn]
    /\ swarm = NewSwarm
    /\ address = NoAddrRun
    /\ wire = NewWire

NextWire ==
    \/ \E key \in PeerKeys \cup {UnknownKey}, body \in Bodies : WireConnect(key, body)
    \/ WireWriteIdLen
    \/ WireWriteId
    \/ WireWriteMsgLen
    \/ WireWriteMsg
    \/ WireFlush
    \/ WireSendFail
    \/ WireReadLen
    \/ WireReadBody
    \/ WireReadFail
    \/ SrvReadIdLen
    \/ SrvReadId
    \/ SrvLookup
    \/ SrvReadMsgLen
    \/ SrvReadMsg
    \/ \E r \in {OkAccepted, ErrNotAllowed} \cup {OkTask(y) : y \in Outputs} :
          SrvBridgeReturn(EncodeResult(r))
    \/ SrvBridgeFail
    \/ SrvWriteLen
    \/ SrvWriteBody
    \/ \E delivered \in BOOLEAN : SrvReturn(delivered)
    \/ SrvTimeout

SpecWire == InitWire /\ [][NextWire]_vars

(* ------------------- clients that stall mid-request ------------------- *)

\* a router with attached actors and clients that may stop anywhere in
\* their request; the router is not stopped
NextRouterStall ==
    \/ \E b \in Actors : AdminAttach(b)
    \/ AdminReply
    \/ RouterRecvAttach
    \/ RouterAccept
    \/ \E k \in Reqs, key \in PeerKeys \cup {UnknownKey} : ClientConnect(k, key)
    \/ \E k \in Reqs : ClientWriteId(k)
    \/ \E k \in Reqs, m \in {Task(1), Ping} : ClientWriteMsg(k, EncodeMsg(m))
    \/ \E k \in Reqs, m \in {Task(1), Ping} : ClientWritePartial(k, EncodeMsg(m))
    \/ \E k \in Reqs : ClientWriteFail(k)
    \/ \E k \in Reqs : ClientReadReply(k)
    \/ \E k \in Reqs : ClientReadFail(k)
    \/ \E k \in Reqs : ConnLookup(k)
    \/ \E k \in Reqs : ConnLookupMiss(k)
    \/ \E k \in Reqs : ConnForward(k)
    \/ \E k \in Reqs : ConnWriteReply(k)
    \/ \E k \in Reqs : ConnTimeoutMidReply(k)
    \/ \E k \in Reqs : ConnTimeout(k)
    \/ \E b \in Actors : BridgeForward(b)
    \/ \E b \in Actors : BridgeReply(b)
    \/ \E b \in Actors : SendEnqueue(BridgeSender(b))
    \/ \E b \in Actors : SendReply(BridgeSender(b))
    \/ \E a \in Actors : WorkerRecvTask(a)
    \/ \E a \in Actors, s \in Slots, h \in HandlerReturns : HandlerReturn(a, s, h)
    \/ \E a \in Actors : WorkerRecvPing(a)

\* router.rs 120-121: the timer of tokio::time::timeout fires if the worker
\* has not finished before it
SpecRouterStall ==
    /\ InitRouter
    /\ [][NextRouterStall]_vars
    /\ \A k \in Reqs : WF_vars(ConnTimeout(k))

\* the steps of the bridge's worker and of the actor's worker behind it
BackendNext ==
    \/ \E b \in Actors : BridgeForward(b)
    \/ \E b \in Actors : BridgeReply(b)
    \/ \E b \in Actors : SendEnqueue(BridgeSender(b))
    \/ \E b \in Actors : SendReply(BridgeSender(b))
    \/ \E a \in Actors : WorkerRecvTask(a)
    \/ \E a \in Actors, s \in Slots, h \in HandlerReturns : HandlerReturn(a, s, h)
    \/ \E a \in Actors : WorkerRecvPing(a)

\* remote.rs 43, local.rs 27: the bridge and the actor run as tasks of their
\* own (tokio::spawn) and are scheduled whatever happens to a connection;
\* handlers are taken to return
SpecRouterLate ==
    /\ InitRouter
    /\ [][NextRouterStall]_vars
    /\ WF_vars(BackendNext)

(* ------------- a bridged actor whose handles are given up ------------- *)

\* the steps of the bridge's worker, of its local send and of the actor's
\* worker, the ends of their loops included
TeardownNext ==
    \/ BackendNext
    \/ \E b \in Actors : BridgeRecvUndecodable(b)
    \/ \E b \in Actors : BridgeRecvNotAllowed(b)
    \/ \E b \in Actors : BridgeRecvNone(b)
    \/ \E b \in Actors : BridgeExit(b)
    \/ \E b \in Actors : SendFail(BridgeSender(b))
    \/ \E b \in Actors : SendRecvFail(BridgeSender(b))
    \/ \E a \in Actors, s \in Slots : HandlerPanic(a, s)
    \/ \E a \in Actors : WorkerRecvNone(a)
    \/ \E a \in Actors : WorkerExit(a)

\* a bridged actor whose handles are given up: callers of the UntypedHandle
\* may stop waiting, the UntypedHandle and the user's LocalHandle are dropped
NextBridgeEnd ==
    \/ \E a \in Actors : DropHandle(a)
    \/ \E b \in Actors : UntypedDrop(b)
    \/ \E r \in Reqs, b \in Actors, bytes \in Bodies \ {Oversized} :
          UntypedSend(r, b, bytes)
    \/ \E r \in Reqs : UntypedReply(r)
    \/ \E r \in Reqs : UntypedAbandon(r)
    \/ TeardownNext

\* remote.rs 43, local.rs 27: both workers are tasks of the tokio runtime; a
\* handler that was called returns or panics
SpecBridgeEnd ==
    /\ InitBridge
    /\ [][NextBridgeEnd]_vars
    /\ WF_vars(TeardownNext)

(* ---------------- a router whose handle is dropped -------------------- *)

\* a router whose owner attaches, revokes and in the end drops the
\* RouterHandle without a stop, over a net layer whose accept may fail
NextRouterDrop ==
    \/ \E b \in Actors : AdminAttach(b)
    \/ \E key \in PeerKeys : AdminRevoke(key)
    \/ AdminReply
    \/ AdminDrop
    \/ RouterRecvAttach
    \/ RouterRecvRevoke
    \/ RouterAccept
    \/ RouterAcceptFail
    \/ RouterRecvNone
    \/ RouterExit
    \/ \E k \in Reqs, key \in PeerKeys : ClientConnect(k, key)
    \/ \E k \in Reqs : ClientWriteId(k)
    \/ \E k \in Reqs : ClientWriteMsg(k, EncodeMsg(Ping))
    \/ \E k \in Reqs : ClientWriteFail(k)
    \/ \E k \in Reqs : ClientReadReply(k)
    \/ \E k \in Reqs : ClientReadFail(k)
    \/ \E k \in Reqs : ConnLookup(k)
    \/ \E k \in Reqs : ConnLookupMiss(k)
    \/ \E k \in Reqs : ConnForward(k)
    \/ \E k \in Reqs : ConnWriteReply(k)
    \/ \E b \in Actors : BridgeForward(b)
    \/ \E b \in Actors : BridgeReply(b)
    \/ \E b \in Actors : SendEnqueue(BridgeSender(b))
    \/ \E b \in Actors : SendReply(BridgeSender(b))
    \/ \E a \in Actors : WorkerRecvPing(a)

SpecRouterDrop == InitRouter /\ [][NextRouterDrop]_vars

(* ------------- a router with two addresses of one bridge ------------- *)

\* router.rs 279-296: the state after attach was called once for every peer
\* id with a clone of the handle of bridge 1 and has returned: the table
\* holds the handle under every id and the owner knows the addresses
InitRouterAttached ==
    /\ actor = [a \in Actors |->
                    [NewActor(0) EXCEPT !.wpc = "recv", !.conf = "ok",
                                        !.spawnpc = "returned",
                                        !.handles = {BridgeSender(a)}]]
    /\ slots = [s \in Slots |-> FreshSlot]
    /\ nextSlot = 1
    /\ sender = [c \in Senders |->
                    IF c \in Clients THEN [NewSender EXCEPT !.pc = "dropped"]
                    ELSE [NewSender EXCEPT !.pc = "idle"]]
    /\ bridge = [b \in Actors |-> [NewBridge EXCEPT !.pc = "recv"]]
    /\ uhandle = [b \in Actors |-> DefaultHandle(b)]
    /\ breq = [r \in Reqs |-> NewBReq]
    /\ router = [NewRouter EXCEPT
                    !.pc = "loop", !.listening = TRUE, !.minted = MaxCmds,
                    !.peers = [k \in PeerKeys |-> DefaultHandle(1)]]
    /\ cmds = [n \in Cmds |-> NewCmd]
    /\ admin = [NewAdmin EXCEPT !.addrs = PeerKeys]
    /\ conns = [k \in Reqs |-> NewConn]
    /\ InitOtherUnused

\* router.rs 302-310: revoke(address) with an address no attach of this
\* router returned
AdminRevokeForeign == AdminCall("Revoke", NoHandle, UnknownKey)

\* the owner revokes addresses, the same one again and again or one the
\* router never gave out, while clients ping the addresses
NextRouterRevoke ==
    \/ \E key \in PeerKeys : AdminRevoke(key)
    \/ AdminRevokeForeign
    \/ AdminReply
    \/ RouterRecvRevoke
    \/ RouterAccept
    \/ \E k \in Reqs, key \in PeerKeys : ClientConnect(k, key)
    \/ \E k \in Reqs : ClientWriteId(k)
    \/ \E k \in Reqs : ClientWriteMsg(k, EncodeMsg(Ping))
    \/ \E k \in Reqs : ClientReadReply(k)
    \/ \E k \in Reqs : ClientReadFail(k)
    \/ \E k \in Reqs : ConnLookup(k)
    \/ \E k \in Reqs : ConnLookupMiss(k)
    \/ \E k \in Reqs : ConnForward(k)
    \/ \E k \in Reqs : ConnWriteReply(k)
    \/ \E b \in Actors : BridgeForward(b)
    \/ \E b \in Actors : BridgeReply(b)
    \/ \E b \in Actors : SendEnqueue(BridgeSender(b))
    \/ \E b \in Actors : SendReply(BridgeSender(b))
    \/ \E a \in Actors : WorkerRecvPing(a)

SpecRouterRevoke == InitRouterAttached /\ [][NextRouterRevoke]_vars

(* ------------- the peer table's lock and a stuck handler -------------- *)

\* the steps of the control loop on a command
RouterCommandNext ==
    \/ RouterRecvAttach
    \/ RouterRecvRevoke
    \/ RouterRecvStop
    \/ RouterExit

\* a router with the lock of its peer table made visible, in front of an
\* actor whose handler, once called, never returns: no request is answered
NextRouterLock ==
    \/ \E b \in Actors : AdminAttach(b)
    \/ \E key \in PeerKeys : AdminRevoke(key)
    \/ AdminStop
    \/ AdminReply
    \/ RouterRecvAttach
    \/ RouterRecvRevoke
    \/ RouterRecvStop
    \/ RouterExit
    \/ RouterAccept
    \/ \E k \in Reqs, key \in PeerKeys : ClientConnect(k, key)
    \/ \E k \in Reqs : ClientWriteId(k)
    \/ \E k \in Reqs : ClientWriteMsg(k, EncodeMsg(Task(1)))
    \/ \E k \in Reqs : ClientWriteFail(k)
    \/ \E k \in Reqs : ClientReadFail(k)
    \/ \E k \in Reqs : ConnReadLock(k)
    \/ \E k \in Reqs : ConnLookupLocked(k)
    \/ \E k \in Reqs : ConnForward(k)
    \/ \E b \in Actors : BridgeForward(b)
    \/ \E b \in Actors : SendEnqueue(BridgeSender(b))
    \/ \E a \in Actors : WorkerRecvTask(a)

\* router.rs 84, 119: the control loop and every connection worker are
\* tasks of their own; a worker that holds the guard has no await before it
\* drops it
SpecRouterLock ==
    /\ InitRouter
    /\ [][NextRouterLock]_vars
    /\ WF_vars(RouterCommandNext)
    /\ \A k \in Reqs : WF_vars(ConnLookupLocked(k))

(* ------------- RouterHandle: calls that overlap in time --------------- *)

\* router.rs 279-287, 302-310, 325-333: call i on the RouterHandle, made
\* while earlier calls may still wait for their replies (the methods take
\* &self): its command is sent on the control channel, or the call fails on
\* a closed channel
HandleCall(i, kind, h, key) ==
    /\ cmds[i].st = "unused"
    /\ \A j \in 1..(i - 1) : cmds[j].st # "unused"
    /\ kind = "Revoke" => key \in admin.addrs
    /\ IF router.ctlClosed
       THEN /\ cmds' = [cmds EXCEPT ![i] =
                            [NewCmd EXCEPT !.kind = kind, !.handle = h,
                                           !.key = key, !.st = "closed",
                                           !.afterStop = admin.stopped]]
            /\ admin' = [admin EXCEPT !.issued = i, !.failed = @ \cup {i}]
            /\ UNCHANGED router
       ELSE /\ cmds' = [cmds EXCEPT ![i] =
                            [NewCmd EXCEPT !.kind = kind, !.handle = h,
                                           !.key = key, !.st = "open",
                                           !.afterStop = admin.stopped]]
            /\ admin' = [admin EXCEPT !.issued = i]
            /\ router' = [router EXCEPT !.ctl = Append(@, i)]
    /\ UNCHANGED <<otherVars, localVars, bridge, uhandle, breq, conns>>

\* router.rs 289-296, 312-319, 335-342: call i returns the reply it awaited
HandleReturn(i) ==
    /\ cmds[i].st = "filled"
    /\ \/ cmds[i].kind = "Attach" /\ cmds[i].addr \notin admin.addrs
       \/ cmds[i].kind = "Revoke" /\ cmds[i].addr \notin admin.revoked
       \/ cmds[i].kind = "Stop" /\ ~admin.stopped
    /\ admin' = [admin EXCEPT
                    !.addrs = IF cmds[i].kind = "Attach"
                              THEN @ \cup {cmds[i].addr} ELSE @,
                    !.revoked = IF cmds[i].kind = "Revoke"
                                THEN @ \cup {cmds[i].addr} ELSE @,
                    !.stopped = @ \/ cmds[i].kind = "Stop"]
    /\ UNCHANGED <<otherVars, localVars, bridge, uhandle, breq, router, cmds, conns>>

\* a router whose handle is used by overlapping calls while clients connect
\* and have their peer ids looked up
NextRouterCtl ==
    \/ \E i \in Cmds, b \in Actors : HandleCall(i, "Attach", uhandle[b], <<>>)
    \/ \E i \in Cmds, key \in PeerKeys : HandleCall(i, "Revoke", NoHandle, key)
    \/ \E i \in Cmds : HandleCall(i, "Stop", NoHandle, <<>>)
    \/ \E i \in Cmds : HandleReturn(i)
    \/ RouterRecvStop
    \/ RouterRecvAttach
    \/ RouterAttachAddrFail
    \/ RouterRecvRevoke
    \/ RouterAccept
    \/ RouterExit
    \/ \E k \in Reqs, key \in PeerKeys \cup {UnknownKey} : ClientConnect(k, key)
    \/ \E k \in Reqs : ClientWriteId(k)
    \/ \E k \in Reqs : ConnLookup(k)
    \/ \E k \in Reqs : ConnLookupMiss(k)
    \/ \E k \in Reqs : ConnTimeout(k)

SpecRouterCtl == InitRouter /\ [][NextRouterCtl]_vars

(* ------------------ formatting and parsing addresses ------------------ *)

\* address.rs 122-126: String::from(address), the text of an address value
AddrFormat ==
    /\ address.pc = "format"
    /\ address' = [address EXCEPT !.pc = "parse", !.text = to_string(address.value)]
    /\ UNCHANGED <<localVars, remoteVars, swarm, wire>>

\* address.rs 67-82: try_parse is applied to the text
AddrParse ==
    /\ address.pc = "parse"
    /\ address' = [address EXCEPT !.pc = "done", !.parsed = try_parse(address.text)]
    /\ UNCHANGED <<localVars, remoteVars, swarm, wire>>

\* either a text that is parsed, or an address value that is formatted and
\* whose text is parsed
InitAddr ==
    /\ actor = [a \in Actors |-> NewActor(0)]
    /\ slots = [s \in Slots |-> FreshSlot]
    /\ nextSlot = 1
    /\ sender = [c \in Senders |-> NewSender]
    /\ InitRemoteUnused
    /\ swarm = NewSwarm
    /\ wire = NewWire
    /\ address \in {[NoAddrRun EXCEPT !.pc = "parse", !.from = "text", !.text = t] :
                    t \in StringsUpTo(Chars, MaxTextLen)}
              \cup {[NoAddrRun EXCEPT !.pc = "format", !.from = "value",
                                      !.value = a] : a \in Addresses}

NextAddr ==
    \/ AddrFormat
    \/ AddrParse

SpecAddr == InitAddr /\ [][NextAddr]_vars

(* ------------------ the libp2p actor and its authorizer --------------- *)

\* actors/swarm_loop.rs 197-216: a request of peer p reaches the swarm loop,
\* which hands it to the actor task and keeps its response channel; libp2p
\* takes no connection from a banned peer
SwarmRequest(q, p, kind) ==
    /\ swarm.spc = "loop"
    /\ swarm.reqs[q].st = "unused"
    /\ \A j \in 1..(q - 1) : swarm.reqs[j].st # "unused"
    /\ p \notin swarm.banned
    /\ LET req == [NewAReq EXCEPT
                     !.peer = p, !.kind = kind, !.st = "sent",
                     !.afterBan = \E j \in Reqs :
                                     /\ swarm.reqs[j].peer = p
                                     /\ swarm.reqs[j].res = "Ban"] IN
        swarm' = IF swarm.apc = "recv"
                 THEN [swarm EXCEPT !.reqs[q] = req,
                                    !.actorQ = Append(@, q),
                                    !.inbound = @ \cup {q}]
                 ELSE [swarm EXCEPT !.reqs[q] = req]
    /\ UNCHANGED <<localVars, remoteVars, address, wire>>

\* actors.rs 100-194: the response the actor task builds for a message of
\* the given kind under resolution res; h is what Actor::handle returned
Response(kind, res, h) ==
    IF res = "Accepted"
    THEN IF kind = "TaskRequest"
         THEN (IF h[1] = "Ok" THEN Finished(h[2]) ELSE TaskFailed(h[2]))
         ELSE Accepted
    ELSE IF res = "Denied" THEN Unauthorized
    ELSE IF res = "Ban" THEN Banned
    ELSE Internal

\* actors.rs 101-171: Actor::handle runs for accepted task messages only
Handled(kind, res) ==
    res = "Accepted" /\ kind \in {"TaskRequest", "Task"}

\* actors.rs 82-206: one turn of the actor task's loop: the next command is
\* taken, the authorizer resolves it as res, the handler runs if it is an
\* accepted task and the response is sent to the swarm loop; an accepted
\* Stop also sends SwarmCommand::Stop and leaves the loop. A send to a swarm
\* loop that has ended fails and is logged
ActorTurn(res, h) ==
    /\ swarm.apc = "recv"
    /\ swarm.actorQ # <<>>
    /\ LET q == Head(swarm.actorQ)
           kind == swarm.reqs[q].kind
           resp == Response(kind, res, h)
           stop == res = "Accepted" /\ kind = "Stop"
           out == IF stop THEN <<<<"Response", q, resp>>, <<"Stop", 0, NoResult>>>>
                  ELSE <<<<"Response", q, resp>>>> IN
        swarm' = [swarm EXCEPT
                    !.reqs[q] = [@ EXCEPT !.res = res, !.resp = resp,
                                          !.handled = Handled(kind, res)],
                    !.actorQ = IF stop THEN <<>> ELSE Tail(@),
                    !.apc = IF stop THEN "done" ELSE "recv",
                    !.swarmQ = IF swarm.spc = "loop" THEN @ \o out ELSE @]
    /\ UNCHANGED <<localVars, remoteVars, address, wire>>

\* variant of SwarmResponse: a Banned response bans nobody
SwarmResponseNoBan(delivered) ==
    /\ swarm.spc = "loop"
    /\ swarm.swarmQ # <<>>
    /\ Head(swarm.swarmQ)[1] = "Response"
    /\ LET q == Head(swarm.swarmQ)[2]
           resp == Head(swarm.swarmQ)[3]
           p == swarm.reqs[q].peer IN
        /\ delivered => q \in swarm.inbound /\ p \notin swarm.banned
        /\ swarm' = [swarm EXCEPT
                        !.swarmQ = Tail(@),
                        !.inbound = @ \ {q},
                        !.reqs[q] = IF delivered
                                    THEN [@ EXCEPT !.st = "answered",
                                                   !.reply = resp]
                                    ELSE @]
    /\ UNCHANGED <<localVars, remoteVars, address, wire>>

\* actors/swarm_loop.rs 147-164: the swarm loop takes a Response command: if
\* the request is still in inbound_requests its entry is removed and the
\* serialized response handed to libp2p, which delivers it (delivered) or
\* not; nothing is delivered to a peer whose connections were closed by a
\* ban. After a Banned response the loop sleeps and bans the peer
SwarmResponse(delivered) ==
    /\ swarm.spc = "loop"
    /\ swarm.swarmQ # <<>>
    /\ Head(swarm.swarmQ)[1] = "Response"
    /\ LET q == Head(swarm.swarmQ)[2]
           resp == Head(swarm.swarmQ)[3]
           p == swarm.reqs[q].peer IN
        /\ delivered => q \in swarm.inbound /\ p \notin swarm.banned
        /\ swarm' = [swarm EXCEPT
                        !.swarmQ = Tail(@),
                        !.inbound = @ \ {q},
                        !.banned = IF resp = Banned THEN @ \cup {p} ELSE @,
                        !.reqs[q] = IF delivered
                                    THEN [@ EXCEPT !.st = "answered",
                                                   !.reply = resp]
                                    ELSE @]
    /\ UNCHANGED <<localVars, remoteVars, address, wire>>

\* actors/swarm_loop.rs 165-170: SwarmCommand::Stop: the loop sleeps and
\* breaks; the swarm is dropped with its connections and the two channels
SwarmStop ==
    /\ swarm.spc = "loop"
    /\ swarm.swarmQ # <<>>
    /\ Head(swarm.swarmQ)[1] = "Stop"
    /\ swarm' = [swarm EXCEPT !.spc = "done", !.swarmQ = <<>>,
                               !.inbound = {}]
    /\ UNCHANGED <<localVars, remoteVars, address, wire>>

\* actors.rs 58-80, 212: the state when Actor::spawn returned: the swarm loop
\* and the actor task run and no request has come in
InitSwarm ==
    /\ actor = [a \in Actors |-> NewActor(0)]
    /\ slots = [s \in Slots |-> FreshSlot]
    /\ nextSlot = 1
    /\ sender = [c \in Senders |-> NewSender]
    /\ InitRemoteUnused
    /\ swarm = [NewSwarm EXCEPT !.apc = "recv", !.spc = "loop"]
    /\ address = NoAddrRun
    /\ wire = NewWire

\* remote peers send requests; the authorizer is user code and may resolve
\* any request in any way
NextSwarm ==
    \/ \E q \in Reqs, p \in RemotePeers, kind \in MessageTypes :
          SwarmRequest(q, p, kind)
    \/ \E res \in Resolutions, h \in HandlerReturns : ActorTurn(res, h)
    \/ \E delivered \in BOOLEAN : SwarmResponse(delivered)
    \/ SwarmStop

SpecSwarm == InitSwarm /\ [][NextSwarm]_vars

(* -------------------------- properties: router ------------------------ *)

\* C1: once revoke(A) has returned, a request on a connection opened afterwards
\* for A's peer id is dropped: the worker finds no handle for it, nothing is
\* passed to the bridge, no reply frame is written, and RemoteHandle::send, when
\* it returns, returns an error.
C1_RevokedIsDropped ==
    \A k \in Reqs :
        conns[k].afterRevoke =>
            /\ conns[k].handle = NoHandle
            /\ conns[k].spc \in {"none", "backlog", "readid", "closed"}
            /\ breq[k].st = "unused"
            /\ \A b \in Actors : ~InMailbox(bridge[b].mailbox, k)
            /\ conns[k].s2c = <<>>
            /\ conns[k].result[1] \in {"None", "Connect", "Send", "Recv"}
            /\ conns[k].cpc = "done" => conns[k].result[1] \in {"Connect", "Send", "Recv"}

\* a Ping to an attached address was answered; the address was then revoked,
\* revoke returned Ok, and a second request for the same peer id, opened
\* afterwards, was read by its worker, found unknown and ended in Error::Recv
C1_Witness ==
    \E j, k \in Reqs :
        /\ j # k
        /\ conns[j].key = conns[k].key
        /\ ~conns[j].afterRevoke
        /\ conns[j].result = ROk(OkAccepted)
        /\ conns[k].afterRevoke
        /\ conns[k].id = conns[k].key
        /\ conns[k].result = RErr("Recv")
        /\ admin.failed = {}
        /\ \E i \in Cmds : cmds[i].kind = "Revoke" /\ cmds[i].st = "filled"

\* the handles attach registered under peer id key (at most one: every
\* attach mints a fresh id)
AttachedUnder(key) ==
    {cmds[i].handle : i \in {j \in Cmds : cmds[j].kind = "Attach"
                                          /\ cmds[j].addr = key}}

\* the control loop has removed peer id key from the table
RevokeReached(key) ==
    \E i \in Cmds : cmds[i].kind = "Revoke" /\ cmds[i].addr = key

\* a reply frame: the length, then the body
Frame(bs) == <<Len(bs)>> \o bs

C13_InFlightSurvivesRevoke ==
    \A k \in Reqs :
        LET v == breq[k].val[2] IN
        /\ (/\ conns[k].spc = "readmsg"
            /\ FieldReady(Unread(k))
            /\ Unread(k)[1] <= MaxMsgSize) => ENABLED ConnForward(k)
        /\ (/\ conns[k].spc = "bawait"
            /\ breq[k].st = "filled"
            /\ breq[k].val[1] = "Ok") => ENABLED ConnWriteReply(k)
        /\ conns[k].lateFwd =>
                /\ ~conns[k].afterRevoke
                /\ breq[k].st # "unused"
                /\ \E h \in AttachedUnder(conns[k].key) : breq[k].to = h.bridge
                /\ conns[k].end \in {"", "replied", "midreply", "timeout",
                                     "bridgefail"}
                /\ conns[k].end = "bridgefail" => DecodeMsg(breq[k].bytes) = NoMsg
                /\ conns[k].end = "replied" => conns[k].s2c = Frame(v)
                /\ conns[k].cpc = "done" /\ conns[k].end = "replied" =>
                        conns[k].result = ROk(DecodeResult(v))

\* the lookup of a Ping succeeded, revoke of its address returned before the
\* worker handed the Ping to the bridge, and the client still got Accepted
C13_Witness ==
    \E k \in Reqs :
        /\ conns[k].lateFwd
        /\ conns[k].key \in admin.revoked
        /\ admin.failed = {}
        /\ breq[k].msg = Ping
        /\ conns[k].end = "replied"
        /\ conns[k].result = ROk(OkAccepted)

Payload(k) == DecodeResult(Field(conns[k].s2c))

\* C15 as claimed: an error in a reply frame is MsgError::Task or
\* MsgError::NotAllowed, never the wrapped actor's MsgError::Send or
\* MsgError::Recv.
C15_OnlyTaskAndNotAllowedCross ==
    \A k \in Reqs :
        FieldReady(conns[k].s2c) /\ Payload(k)[1] = "Err" =>
            Payload(k)[2] \in {"Task", "NotAllowed"}

\* C15: a reply frame carries the MsgResult the bridge obtained, so the errors
\* in it are MsgError::Task, MsgError::NotAllowed (sent by the bridge itself),
\* and the MsgError::Send or MsgError::Recv that LocalHandle::send on the wrapped
\* actor returned; a failure of the bridge or of the router (undecodable
\* request, closed bridge, unknown peer, timeout) is never put in a frame: the
\* connection ends without a whole reply and RemoteHandle::send returns
\* Error::Recv, Error::Send or Error::Connect.
C15_ErrorsThatCross ==
    \A k \in Reqs :
        /\ FieldReady(conns[k].s2c) =>
                /\ Payload(k) # NoResult
                /\ Payload(k)[1] = "Err" =>
                        Payload(k)[2] \in {"Task", "NotAllowed", "Send", "Recv"}
                /\ Payload(k) = ErrNotAllowed => ~breq[k].fwd
                /\ Payload(k) # ErrNotAllowed =>
                        /\ breq[k].fwd
                        /\ Payload(k) = slots[breq[k].slot].ret
        /\ breq[k].st = "closed" \/ breq[k].val[1] \notin {"Ok", "None"} =>
                conns[k].s2c = <<>>
        /\ conns[k].end \in {"dropped", "unknown", "oversize", "sendfail",
                             "bridgefail", "timeout"} => conns[k].s2c = <<>>
        /\ conns[k].end = "midreply" => ~FieldReady(conns[k].s2c)
        /\ conns[k].cpc = "done" =>
                \/ conns[k].result[1] \in {"Connect", "Send", "Recv"}
                \/ /\ conns[k].end = "replied"
                   /\ conns[k].result = ROk(Payload(k))

\* a handler panicked under one request and its client got Ok(Err(Recv)); the
\* next request found the actor gone and its client got Ok(Err(Send))
C15_Witness ==
    \E j, k \in Reqs :
        /\ conns[j].result = ROk(ErrRecv)
        /\ conns[k].result = ROk(ErrSend)
        /\ conns[k].s2c = Frame(EncodeResult(ErrSend))

\* C18: once stop() has returned Ok the control loop has been left for good:
\* a call made on the RouterHandle afterwards is never served and returns an
\* error, so the peer table is not changed any more; no connection opened
\* afterwards gets a worker, and its RemoteHandle::send returns an error; once
\* the loop's task has ended nothing listens and nothing waits to be accepted;
\* the workers spawned before go on by themselves: they can still read their
\* peer id, find a handle that was attached and not revoked, hand the request
\* to the bridge and write the reply.
C18_RouterStopIsTerminal ==
    /\ admin.stopped => router.pc \in {"exiting", "done"}
    /\ router.pc = "done" =>
            /\ router.ctlClosed
            /\ ~router.listening
            /\ router.backlog = <<>>
            /\ \A k \in Reqs : conns[k].spc # "backlog"
    /\ \A i \in Cmds :
        cmds[i].afterStop =>
            /\ cmds[i].st \in {"open", "closed"}
            /\ cmds[i].addr = <<>>
            /\ admin.cmd # i => i \in admin.failed
    /\ \A k \in Reqs :
        /\ conns[k].afterStop =>
            /\ conns[k].spc \in {"none", "backlog", "closed"}
            /\ conns[k].end \in {"", "dropped"}
            /\ conns[k].id = <<>>
            /\ breq[k].st = "unused"
            /\ conns[k].s2c = <<>>
            /\ conns[k].cpc = "done" =>
                    conns[k].result[1] \in {"Connect", "Send", "Recv"}
        /\ router.pc \in {"exiting", "done"} =>
            /\ (conns[k].spc = "readid" /\ FieldReady(Unread(k))) =>
                    IF \/ conns[k].key = UnknownKey
                       \/ RevokeReached(conns[k].key)
                    THEN ENABLED ConnLookupMiss(k)
                    ELSE ENABLED ConnLookup(k)
            /\ (/\ conns[k].spc = "readmsg"
                /\ FieldReady(Unread(k))
                /\ ~TooLarge(Unread(k)[1])) => ENABLED ConnForward(k)
            /\ (/\ conns[k].spc = "bawait"
                /\ breq[k].st = "filled"
                /\ breq[k].val[1] = "Ok") => ENABLED ConnWriteReply(k)

\* stop() returned Ok and the loop's task ended; an attach made afterwards
\* failed; a connection opened afterwards was refused; and the worker of a
\* connection accepted before the stop is still reading its request
C18_Witness ==
    /\ admin.stopped
    /\ router.pc = "done"
    /\ \E i \in Cmds : /\ cmds[i].afterStop
                       /\ cmds[i].kind = "Attach"
                       /\ i \in admin.failed
    /\ \E j, k \in Reqs :
        /\ ~conns[j].afterStop
        /\ conns[j].spc = "readid"
        /\ conns[k].afterStop
        /\ conns[k].result = RErr("Connect")

\* connection k's worker ends in this step because its peer id is unknown
UnknownPeerStep(k) == conns[k].end = "" /\ conns'[k].end = "unknown"

\* C19: a request whose peer id is not in the peer table is dropped and
\* nothing else happens: the worker can only return; in that step the peer
\* table, the bridges, their requests and the actors are left as they were;
\* nothing was handed to a bridge and no reply frame was written for it; the
\* connection is closed and RemoteHandle::send, when it returns, returns an
\* error.
C19_UnknownPeerDropped ==
    /\ [](\A k \in Reqs :
            /\ (/\ conns[k].spc = "readid"
                /\ FieldReady(Unread(k))
                /\ Lookup(try_read_id(Unread(k))) = NoHandle) =>
                    /\ ENABLED ConnLookupMiss(k)
                    /\ ~ENABLED ConnLookup(k)
            /\ conns[k].key = UnknownKey => conns[k].spc # "readmsg"
            /\ conns[k].end = "unknown" =>
                    /\ conns[k].spc = "closed"
                    /\ conns[k].id = conns[k].key
                    /\ Lookup(conns[k].id) = NoHandle
                    /\ breq[k].st = "unused"
                    /\ \A b \in Actors : ~InMailbox(bridge[b].mailbox, k)
                    /\ conns[k].s2c = <<>>
                    /\ conns[k].cpc = "done" =>
                            conns[k].result[1] \in {"Send", "Recv"})
    /\ [][\A k \in Reqs :
            UnknownPeerStep(k) =>
                /\ router' = router
                /\ bridge' = bridge
                /\ breq' = breq
                /\ actor' = actor
                /\ slots' = slots
                /\ conns'[k].s2c = <<>>]_vars

\* while an address was attached, a request for a peer id no attach ever
\* returned was read by its worker, found unknown and ended in Error::Recv,
\* the attached entry still in the table
C19_Witness ==
    \E k \in Reqs :
        /\ conns[k].key = UnknownKey
        /\ conns[k].id = UnknownKey
        /\ conns[k].end = "unknown"
        /\ conns[k].result = RErr("Recv")
        /\ \E key \in PeerKeys : router.peers[key] # NoHandle

(* ------------------------ properties: local actors -------------------- *)

InSeq(q, s) == \E i \in 1..Len(q) : q[i] = s
Returned(s) == slots[s].ret # NoResult
InvokedCount(s, kind) ==
    Cardinality(UNION {{<<a, i>> : i \in {j \in 1..Len(actor[a].invoked) :
                                            actor[a].invoked[j] = <<s, kind>>}} :
                       a \in Actors})

\* C2: a send that starts after a Stop was answered Reply::Accepted never
\* gets a reply: its oneshot is never filled, and when it returns it returns
\* MsgError::Send or MsgError::Recv.
C2_StopIsTerminal ==
    \A s \in Slots :
        slots[s].afterStop =>
            /\ slots[s].st # "filled"
            /\ slots[s].ret \in {NoResult, ErrSend, ErrRecv}

\* a send started after the Stop reply has returned an error
C2_Witness ==
    \E s \in Slots :
        /\ slots[s].afterStop
        /\ slots[s].msg = Ping
        /\ slots[s].ret \in {ErrSend, ErrRecv}

\* C3: a Stop taken by the worker is answered Reply::Accepted and is the last
\* message the worker takes: nothing is processed after it, no handler runs
\* or starts after it, and a message queued behind it is never handled.
C3_StopIsLast ==
    \A a \in Actors :
    \A i \in 1..Len(actor[a].processed) :
        slots[actor[a].processed[i]].msg = Stop =>
            /\ i = Len(actor[a].processed)
            /\ slots[actor[a].processed[i]].st = "filled"
            /\ slots[actor[a].processed[i]].val = OkAccepted
            /\ actor[a].running = {}
            /\ actor[a].wpc \in {"exiting", "done"}
            /\ \A j \in 1..Len(actor[a].invoked) :
                  InSeq(SubSeq(actor[a].processed, 1, i - 1), actor[a].invoked[j][1])
            /\ \A s \in Slots :
                  (InSeq(actor[a].enqOrder, s) /\ ~InSeq(actor[a].processed, s)) =>
                      /\ slots[s].hret = NoReturn
                      /\ slots[s].st # "filled"

\* the worker has ended after a Stop with a task queued behind the Stop,
\* which was dropped
C3_Witness ==
    /\ actor[1].wpc = "done"
    /\ Len(actor[1].enqOrder) = 2
    /\ slots[actor[1].enqOrder[1]].msg = Stop
    /\ slots[actor[1].enqOrder[2]].msg[1] \in {"Task", "TaskMut"}
    /\ actor[1].processed = <<actor[1].enqOrder[1]>>
    /\ slots[actor[1].enqOrder[2]].st = "closed"

\* C4 as stated: every send that starts after the Stop was processed
\* (answered) fails with MsgError::Send specifically.
C4_SendAfterStopIsSendError ==
    \A s \in Slots :
        (slots[s].afterStop /\ Returned(s)) => slots[s].ret = ErrSend

\* C4 as amended: once the worker has ended after a Stop the mailbox is closed
\* and empty, and a send that starts after the receiver was dropped fails with
\* MsgError::Send; a send that starts after the Stop reply but before the drop
\* fails with Send or Recv.
C4_SendAfterCloseIsSendError ==
    /\ \A a \in Actors :
        (StopAnswered(a) /\ actor[a].wpc = "done") =>
            (actor[a].rxClosed /\ actor[a].mailbox = <<>>)
    /\ \A s \in Slots :
        /\ (slots[s].afterStop /\ slots[s].afterClosed /\ Returned(s))
              => slots[s].ret = ErrSend
        /\ (slots[s].afterStop /\ Returned(s))
              => slots[s].ret \in {ErrSend, ErrRecv}
        /\ slots[s].afterClosed => \A a \in Actors : ~InSeq(actor[a].enqOrder, s)

\* a send started after the stopped worker dropped the receiver got Send
C4_Witness ==
    \E s \in Slots :
        slots[s].afterStop /\ slots[s].afterClosed /\ slots[s].ret = ErrSend

\* C5: once the worker has ended, every message that was enqueued and never
\* taken has been dropped unhandled: its oneshot is closed without a value,
\* so the send waiting on it can return, and it returns MsgError::Recv.
C5_PendingDropped ==
    \A a \in Actors :
    actor[a].rxClosed =>
        \A s \in Slots :
            (InSeq(actor[a].enqOrder, s) /\ ~InSeq(actor[a].processed, s)) =>
                /\ slots[s].st = "closed"
                /\ slots[s].hret = NoReturn
                /\ InvokedCount(s, "handler") + InvokedCount(s, "handler_mut") = 0
                /\ slots[s].ret \in {NoResult, ErrRecv}
                /\ ~Returned(s) =>
                      \E c \in Senders :
                          sender[c].slot = s /\ sender[c].pc = "awaiting"

\* a send whose message was still queued when the worker ended returned Recv
C5_Witness ==
    /\ actor[1].rxClosed
    /\ \E s \in Slots :
        /\ InSeq(actor[1].enqOrder, s)
        /\ ~InSeq(actor[1].processed, s)
        /\ slots[s].ret = ErrRecv

\* C6: at most one handler invocation is in progress at any time, and only
\* while the worker is in its handling step.
C6_OneAtATime ==
    \A a \in Actors :
        /\ Cardinality(actor[a].running) <= 1
        /\ (actor[a].running # {}) <=> (actor[a].wpc = "handling")

\* a handler runs while another sender's message waits in the mailbox
C6_Witness ==
    /\ Cardinality(actor[1].running) = 1
    /\ actor[1].mailbox # <<>>
    /\ slots[Head(actor[1].mailbox)].msg[1] \in {"Task", "TaskMut"}
    /\ \A c \in Clients : sender[c].pc = "awaiting"

\* C7: the worker takes messages in the order they entered the mailbox, and a
\* handler invocation is over before the next message is taken: the messages
\* taken so far are the first ones enqueued, in that order, and only the one
\* taken last can still be running.
C7_Fifo ==
    \A a \in Actors :
        /\ Len(actor[a].processed) <= Len(actor[a].enqOrder)
        /\ \A i \in 1..Len(actor[a].processed) :
              actor[a].processed[i] = actor[a].enqOrder[i]
        /\ \A i \in 1..(Len(actor[a].processed) - 1) :
              actor[a].processed[i] \notin actor[a].running
        /\ \A i, j \in 1..Len(actor[a].invoked) :
              i < j => \E k, l \in 1..Len(actor[a].enqOrder) :
                          /\ k < l
                          /\ actor[a].enqOrder[k] = actor[a].invoked[i][1]
                          /\ actor[a].enqOrder[l] = actor[a].invoked[j][1]

\* two tasks were queued together, the later-created send first, and both
\* were handled in queue order
C7_Witness ==
    /\ actor[1].enqOrder = <<2, 1>>
    /\ Len(actor[1].invoked) = 2
    /\ actor[1].invoked[1][1] = 2
    /\ actor[1].invoked[2][1] = 1
    /\ slots[1].hret # NoReturn

\* C8: a returned send of Task(x) is Ok(Reply::Task(y)) exactly when the
\* read-only handler returned Ok(y) for it, and Err(MsgError::Task(e)) exactly
\* when the handler returned Err(e); only the read-only handler is invoked.
C8_TaskRoundTrip ==
    \A s \in Slots :
        slots[s].msg[1] = "Task" =>
            /\ InvokedCount(s, "handler_mut") = 0
            /\ InvokedCount(s, "handler") <= 1
            /\ slots[s].hret # NoReturn => InvokedCount(s, "handler") = 1
            /\ Returned(s) =>
                /\ \A y \in Outputs :
                      (slots[s].ret = OkTask(y)) <=> (slots[s].hret = HOk(y))
                /\ \A e \in Errors :
                      (slots[s].ret = ErrTask(e)) <=> (slots[s].hret = HErr(e))
                /\ slots[s].ret # OkAccepted

\* one Task send returned the handler's output and another the handler's error
C8_Witness ==
    \E s1, s2 \in Slots :
        /\ slots[s1].msg[1] = "Task" /\ slots[s1].ret = OkTask(1)
        /\ slots[s2].msg[1] = "Task" /\ slots[s2].ret = ErrTask(1)

\* C9: a send of TaskMut(x) invokes the mutating handler at most once, exactly
\* once when it returns a reply, never the read-only handler, and its result
\* is Ok(Some(o)) -> Ok(Reply::Task(o)), Ok(None) -> Ok(Reply::Accepted),
\* Err(e) -> Err(MsgError::Task(e)).
C9_TaskMutMapping ==
    \A s \in Slots :
        slots[s].msg[1] = "TaskMut" =>
            /\ InvokedCount(s, "handler") = 0
            /\ InvokedCount(s, "handler_mut") <= 1
            /\ slots[s].hret # NoReturn => InvokedCount(s, "handler_mut") = 1
            /\ Returned(s) =>
                /\ \A o \in Outputs :
                      (slots[s].hret = HSome(o)) <=> (slots[s].ret = OkTask(o))
                /\ (slots[s].hret = HNone) <=> (slots[s].ret = OkAccepted)
                /\ \A e \in Errors :
                      (slots[s].hret = HErr(e)) <=> (slots[s].ret = ErrTask(e))
                /\ (slots[s].hret = NoReturn) <=> (slots[s].ret \in {ErrSend, ErrRecv})

\* TaskMut sends returned Reply::Accepted for Ok(None) and a task error
C9_Witness ==
    \E s1, s2 \in Slots :
        /\ slots[s1].msg[1] = "TaskMut" /\ slots[s1].hret = HNone
        /\ slots[s1].ret = OkAccepted
        /\ slots[s2].msg[1] = "TaskMut" /\ slots[s2].ret = ErrTask(1)

\* the step in which the worker of actor a takes a Ping
PingStep(a) ==
    /\ Len(actor[a].processed') = Len(actor[a].processed) + 1
    /\ slots[actor[a].processed'[Len(actor[a].processed')]].msg = Ping

\* C10: a Ping taken by the worker is answered Reply::Accepted, no handler is
\* invoked for it, and the step that processes it leaves the actor's state,
\* the handler log and the worker's position unchanged.
C10_PingIsPure ==
    /\ [](\A a \in Actors, s \in Slots :
            (slots[s].msg = Ping /\ InSeq(actor[a].processed, s)) =>
                /\ slots[s].st = "filled"
                /\ slots[s].val = OkAccepted
                /\ slots[s].hret = NoReturn
                /\ InvokedCount(s, "handler") + InvokedCount(s, "handler_mut") = 0
                /\ slots[s].ret \in {NoResult, OkAccepted})
    /\ [][\A a \in Actors : PingStep(a) =>
            /\ actor[a].state' = actor[a].state
            /\ actor[a].invoked' = actor[a].invoked
            /\ actor[a].running' = actor[a].running
            /\ actor[a].wpc' = actor[a].wpc]_vars

\* a Ping was answered Accepted after a TaskMut had changed the actor's state
C10_Witness ==
    \E s, u \in Slots :
        /\ slots[s].msg = Ping
        /\ slots[s].ret = OkAccepted
        /\ slots[u].msg[1] = "TaskMut"
        /\ slots[u].hret # NoReturn
        /\ actor[1].processed = <<u, s>>

\* C20: spawn returns a LocalHandle only after the worker confirmed that it
\* runs: whoever holds a handle, and every send ever made, found the
\* confirmation sent and the worker past its first step; and when the
\* confirmation channel closes without the signal, spawn returns Error::Spawn:
\* no handle exists and no message is ever sent to that actor.
C20_SpawnIsAtomic ==
    \A a \in Actors :
        /\ actor[a].spawnpc = "returned" =>
                actor[a].conf = "ok" /\ actor[a].wpc # "init"
        /\ actor[a].conf = "pending" => actor[a].spawnpc = "waiting"
        /\ actor[a].conf = "closed" =>
                actor[a].spawnpc \in {"waiting", "failed"} /\ actor[a].wpc = "done"
        /\ actor[a].spawnpc = "failed" => actor[a].conf = "closed"
        /\ actor[a].spawnpc # "returned" =>
                /\ actor[a].handles = {}
                /\ actor[a].mailbox = <<>>
                /\ actor[a].enqOrder = <<>>
                /\ \A c \in Clients : TargetOf(c) = a => sender[c].pc = "nohandle"
                /\ \A s \in Slots : slots[s].to # a

\* the worker was dropped before it ran and spawn returned Error::Spawn:
\* nobody holds a handle
C20_Witness ==
    /\ actor[1].spawnpc = "failed"
    /\ actor[1].conf = "closed"
    /\ actor[1].handles = {}
    /\ \A c \in Clients : sender[c].pc = "nohandle"

(* -------------------------- properties: bridge ------------------------ *)

\* request r carries a message its flags do not admit: a TaskMut without
\* allow_mut, or a Stop without allow_stop
Denied(r) ==
    /\ breq[r].st # "unused"
    /\ \/ DecodeMsg(breq[r].bytes)[1] = "TaskMut" /\ ~breq[r].mut
       \/ DecodeMsg(breq[r].bytes) = Stop /\ ~breq[r].stop

\* the worker of actor a leaves its loop because recv returned None: it was
\* idle, and it neither took a Stop nor had a handler panic in this step
ClosedStep(a) ==
    /\ actor[a].wpc = "recv"
    /\ actor'[a].wpc = "exiting"
    /\ actor'[a].processed = actor[a].processed

\* every LocalHandle of actor a is gone
AllDropped(a) == actor[a].spawnpc = "returned" /\ actor[a].handles = {}

Panicked(a) ==
    \E s \in Slots : slots[s].to = a /\ slots[s].st = "closed"
                                     /\ InSeq(actor[a].processed, s)

\* C22: while the bridge worker has not finished it holds a LocalHandle of
\* its own, so the actor's worker never leaves its loop on a closed mailbox
\* before the bridge worker is done, whatever handles the users dropped; a
\* Task sent through the UntypedHandle when no other LocalHandle was left
\* and answered, is answered with the handler's result, unless a handler
\* panicked.
C22_BridgeKeepsActorAlive ==
    /\ [](\A b \in Actors :
            /\ bridge[b].pc # "done" => BridgeSender(b) \in actor[b].handles
            /\ \A r \in Reqs :
                  (/\ breq[r].to = b /\ breq[r].alone
                   /\ breq[r].msg = Task(1) /\ breq[r].st = "filled"
                   /\ ~Panicked(b))
                  => /\ breq[r].fwd
                     /\ slots[breq[r].slot].hret # NoReturn
                     /\ breq[r].val =
                          BOk(EncodeResult(TaskReply(slots[breq[r].slot].hret))))
    /\ [][\A b \in Actors : ClosedStep(b) => bridge[b].pc = "done"]_vars

\* the user's LocalHandle was dropped, then a Task was sent through the
\* UntypedHandle and the caller got the handler's result
C22_Witness ==
    \E r \in Reqs :
        /\ breq[r].alone
        /\ breq[r].msg = Task(1)
        /\ breq[r].ret = BOk(EncodeResult(OkTask(1)))
        /\ actor[breq[r].to].wpc = "recv"
        /\ sender[breq[r].to].pc = "dropped"

WellFormed(a) ==
    /\ a.proto_id # <<>>
    /\ \A i \in 1..Len(a.proto_id) : a.proto_id[i] \notin {":", "@"}

\* C24: the text of a well-formed address parses, and to the same protocol
\* tag, peer id and host, whatever the host holds after the first '@'.
C24_AddressRoundTrip ==
    (address.from = "value" /\ address.pc = "done" /\ WellFormed(address.value))
        => address.parsed = address.value

\* an address whose host is host:port was formatted and parsed back
C24_Witness ==
    /\ address.from = "value"
    /\ address.pc = "done"
    /\ address.value = Address(<<"t">>, <<170>>, <<"a", ":", "a">>)
    /\ address.text = <<"t", ":", "a", "a", "@", "a", ":", "a">>
    /\ address.parsed = address.value

\* the text between the first ':' and the first '@' of t, if they are there
\* in this order
PeerText(t) ==
    IF Find(t, ":") # -1 /\ Find(t, ":") < Find(t, "@")
    THEN Slice(t, Find(t, ":") + 1, Find(t, "@"))
    ELSE <<>>

\* C25: try_parse returns an error for every text that lacks ':' or '@',
\* whose first '@' does not come after its first ':', whose protocol tag is
\* empty, or whose peer id, the text between the first ':' and the first
\* '@', is empty.
C25_RejectsMalformed ==
    (address.from = "text" /\ address.pc = "done") =>
        ((\/ Find(address.text, ":") = -1
          \/ Find(address.text, "@") = -1
          \/ Find(address.text, "@") < Find(address.text, ":")
          \/ Find(address.text, ":") = 0
          \/ PeerText(address.text) = <<>>)
         => address.parsed.tag # "Ok")

\* a text with an empty peer id was parsed into an address
C25_EmptyPeerIdAccepted ==
    /\ address.from = "text"
    /\ address.pc = "done"
    /\ address.text = <<"t", ":", "@", "a">>
    /\ address.parsed = Address(<<"t">>, <<>>, <<"a">>)

\* C26: a request the bridge has validated was forwarded exactly if the flags
\* UntypedHandle::send enqueued with it admit its message, and was answered
\* NotAllowed otherwise, whatever the handle's flags were changed to while
\* the request was queued.
C26_PolicyIsSnapshot ==
    \A r \in Reqs :
        breq[r].msg # NoMsg =>
            /\ breq[r].fwd = validate(breq[r].mut, breq[r].stop, breq[r].msg)
            /\ (~breq[r].fwd /\ breq[r].st = "filled")
                    => breq[r].val = BOk(EncodeResult(ErrNotAllowed))
            /\ breq[r].fwd => breq[r].val # BOk(EncodeResult(ErrNotAllowed))

\* a TaskMut was enqueued with allow_mut off, the flag was raised while it
\* was queued, and the caller still got NotAllowed
C26_Witness ==
    \E r \in Reqs :
        /\ breq[r].msg = TaskMut(1)
        /\ ~breq[r].mut
        /\ breq[r].toggled
        /\ uhandle[breq[r].to].mut
        /\ ~uhandle[breq[r].to].stop
        /\ ~breq[r].fwd
        /\ breq[r].ret = BOk(EncodeResult(ErrNotAllowed))

\* C27: the control loop applies the commands in the order of the calls, one
\* at a time: a command is answered only when no earlier one is still
\* queued; an attach that was answered has put its entry in the table, where
\* it stays until a revoke of it is applied, and a revoke that was answered
\* has taken its entry out; a lookup finds exactly what an applied attach
\* put under the peer id, and misses a minted peer id only after its revoke
\* was applied.
C27_ControlIsSerial ==
    /\ \A i, j \in Cmds :
          (i < j /\ cmds[j].st = "filled") =>
              cmds[i].st # "open" /\ ~InSeq(router.ctl, i)
    /\ \A i \in 1..Len(router.ctl) :
          /\ cmds[router.ctl[i]].st = "open"
          /\ \A j \in 1..(i - 1) : router.ctl[j] < router.ctl[i]
    /\ \A i \in Cmds :
          /\ (cmds[i].kind = "Attach" /\ cmds[i].st = "filled") =>
                \/ router.peers[cmds[i].addr] = cmds[i].handle
                \/ RevokeReached(cmds[i].addr)
          /\ (cmds[i].kind = "Revoke" /\ cmds[i].st = "filled") =>
                router.peers[cmds[i].addr] = NoHandle
    /\ \A k \in Reqs :
          /\ conns[k].handle # NoHandle =>
                conns[k].handle \in AttachedUnder(conns[k].id)
          /\ (conns[k].end = "unknown" /\ conns[k].id \in PeerKeys) =>
                RevokeReached(conns[k].id)

\* two calls overlapped: a stop was sent while an attach was still queued;
\* the attach was applied first and answered, then the stop, and a client
\* that connected in between had its peer id found
C27_Witness ==
    /\ cmds[1].kind = "Attach" /\ cmds[1].st = "filled"
    /\ cmds[2].kind = "Stop" /\ cmds[2].st = "filled"
    /\ cmds[2].afterStop = FALSE
    /\ 1 \notin admin.failed
    /\ \E k \in Reqs : conns[k].id = cmds[1].addr
                        /\ conns[k].handle = cmds[1].handle
                        /\ conns[k].handle # NoHandle

\* C28: a message whose caller gave up waiting after it was enqueued is
\* handled like any other: the worker takes it and runs the handler, the
\* handler's return leaves the worker at its loop with the rest of the
\* mailbox, the reply is thrown away (the call returns nothing and the
\* oneshot stays empty), and a message handled after it is answered with its
\* handler's result.
C28_AbandonedIsStillHandled ==
    /\ [](\A s \in Slots :
            /\ slots[s].st = "abandoned" =>
                  slots[s].ret = NoResult /\ slots[s].val = FreshSlot.val
            /\ (slots[s].st = "filled" /\ slots[s].msg[1] = "Task") =>
                  slots[s].val = TaskReply(slots[s].hret))
    /\ [][\A a \in Actors, s \in Slots :
            /\ (/\ slots[s].st = "abandoned" /\ slots[s].msg[1] \in {"Task", "TaskMut"}
                /\ actor[a].mailbox # <<>> /\ Head(actor[a].mailbox) = s
                /\ actor'[a].processed # actor[a].processed)
               => s \in actor'[a].running
            /\ (/\ s \in actor[a].running /\ slots[s].st = "abandoned"
                /\ slots'[s].hret # NoReturn)
               => /\ actor'[a].wpc = "recv"
                  /\ actor'[a].mailbox = actor[a].mailbox
                  /\ ~actor'[a].rxClosed
                  /\ slots'[s].st = "abandoned"]_vars

\* the first send was abandoned while its message was queued; its handler
\* returned all the same, and the send behind it got its handler's result
C28_Witness ==
    \E a \in Actors :
        /\ Len(actor[a].processed) = 2
        /\ slots[actor[a].processed[1]].st = "abandoned"
        /\ slots[actor[a].processed[1]].hret = HOk(1)
        /\ slots[actor[a].processed[1]].ret = NoResult
        /\ slots[actor[a].processed[2]].hret = HOk(1)
        /\ slots[actor[a].processed[2]].ret = OkTask(1)

\* the client of connection k has not put a whole request on the stream
NeverCompleted(k) ==
    \/ conns[k].cpc \in {"connected", "wroteid", "stalled"}
    \/ conns[k].cpc = "done" /\ conns[k].result = RErr("Send")

\* C29: a connection worker that runs eventually terminates, and the timeout
\* can end it wherever it waits; while the client has not completed its
\* request nothing is written to the stream and nothing is sent to a
\* bridge, and the worker ends by dropping the stream.
C29_WorkerEndsByTimeout ==
    /\ [](\A k \in Reqs :
            /\ conns[k].spc \in {"readid", "readmsg", "bawait"}
                  => ENABLED ConnTimeout(k)
            /\ NeverCompleted(k) =>
                  /\ conns[k].s2c = <<>>
                  /\ breq[k].st = "unused"
                  /\ conns[k].spc = "closed"
                        => conns[k].end \in {"timeout", "unknown"})
    /\ \A k \in Reqs :
          (conns[k].spc \in {"readid", "readmsg", "bawait"})
              ~> (conns[k].spc = "closed")

\* a client wrote the peer id of an attached actor and part of its message
\* and stalled; the worker found the handle, waited for the rest and was
\* ended by the timeout, with nothing written and nothing forwarded
C29_Witness ==
    \E k \in Reqs :
        /\ conns[k].cpc = "stalled"
        /\ conns[k].id \in PeerKeys
        /\ conns[k].spc = "closed"
        /\ conns[k].end = "timeout"
        /\ conns[k].s2c = <<>>
        /\ breq[k].st = "unused"

\* the client waits in a read for bytes that were not delivered
ClientWaitsToRead ==
    \/ wire.cpc = "readlen" /\ Len(wire.s2c) - wire.cpos < 1
    \/ wire.cpc = "readbody" /\ Len(wire.s2c) - wire.cpos < wire.rlen

\* the worker waits in a read for bytes that were not delivered
WorkerWaitsToRead ==
    \/ wire.spc \in {"readidlen", "readmsglen"} /\ Len(WireUnread) < 1
    \/ wire.spc = "readid" /\ Len(WireUnread) < wire.idlen
    \/ wire.spc = "readmsg" /\ Len(WireUnread) < wire.msglen

\* the request of the exchange: id_len, id, msg_len, body
WireRequest ==
    <<Len(HexDecode(wire.key))>> \o HexDecode(wire.key)
        \o <<Len(wire.body)>> \o wire.body

\* C30: what the client has written and what reaches the worker is a prefix
\* of id_len, id, msg_len, body; the client reads only after the whole
\* request was delivered; the worker reads the id and the body it was sent;
\* reply bytes exist only after the bridge returned, its length before its
\* body; and the two sides never both wait in a read for bytes that were
\* not delivered.
C30_FlushBeforeRead ==
    /\ \E n \in 0..Len(WireRequest) :
          wire.c2s \o wire.cbuf = SubSeq(WireRequest, 1, n)
          \/ (wire.cpc = "done" /\ wire.cbuf = <<>>)
    /\ wire.cpc \in {"readlen", "readbody"} => wire.c2s = WireRequest
    /\ wire.spc \in {"lookup", "readmsglen", "readmsg", "bawait", "writelen",
                      "writebody", "return"} => wire.id = wire.key
    /\ wire.buf # <<>> => wire.buf = wire.body
    /\ (wire.sbuf # <<>> \/ wire.s2c # <<>>) =>
          /\ wire.res # <<>>
          /\ \E n \in 1..(Len(wire.res) + 1) :
                wire.sbuf \o wire.s2c = SubSeq(<<Len(wire.res)>> \o wire.res, 1, n)
    /\ ~(ClientWaitsToRead /\ WorkerWaitsToRead)

\* the client waits for the reply while the worker reads the body, all of
\* which the flush has delivered
C30_Witness ==
    /\ wire.cpc = "readlen"
    /\ wire.spc = "readmsg"
    /\ wire.cbuf = <<>>
    /\ Len(WireUnread) = wire.msglen
    /\ wire.msglen > 0
    /\ ClientWaitsToRead

\* C11: a TaskMut or Stop sent through a bridge whose handle does not allow it
\* (the default) is answered by the bridge itself: UntypedHandle::send returns
\* Ok(bytes) that decode to Err(NotAllowed); the message is never forwarded, so
\* no LocalHandle::send is made for it and the mutating handler runs only for
\* requests that carried allow_mut; and a rejected Stop does not end the bridge:
\* its worker leaves the loop only after a Stop it forwarded.
C11_DefaultPolicyRejects ==
    /\ \A r \in Reqs :
        Denied(r) =>
            /\ ~breq[r].fwd
            /\ breq[r].slot = 0
            /\ breq[r].msg # NoMsg =>
                    /\ breq[r].st = "filled"
                    /\ breq[r].val[1] = "Ok"
                    /\ DecodeResult(breq[r].val[2]) = ErrNotAllowed
            /\ breq[r].ret[1] = "Ok" =>
                    DecodeResult(breq[r].ret[2]) = ErrNotAllowed
    /\ \A a \in Actors :
        \A i \in 1..Len(actor[a].invoked) :
            actor[a].invoked[i][2] = "handler_mut" =>
                \E r \in Reqs :
                    breq[r].slot = actor[a].invoked[i][1] /\ breq[r].mut
    /\ \A b \in Actors :
        bridge[b].pc \in {"exiting", "done"} =>
            \E r \in Reqs :
                breq[r].to = b /\ breq[r].fwd /\ breq[r].msg = Stop /\ breq[r].stop

\* with the default flags a Stop was answered Err(NotAllowed), then a TaskMut
\* or a Ping: the bridge and the actor still run, and the Ping was accepted
C11_Witness ==
    /\ breq[1].bytes = EncodeMsg(Stop)
    /\ ~breq[1].stop
    /\ breq[1].ret = BOk(EncodeResult(ErrNotAllowed))
    /\ breq[2].bytes = EncodeMsg(Ping)
    /\ DecodeResult(breq[2].ret[2]) = OkAccepted
    /\ bridge[1].pc = "recv"
    /\ actor[1].wpc = "recv"
    /\ actor[1].state = 0
    /\ actor[1].invoked = <<>>

\* C16: a message the flags admit goes through the bridge as through the
\* LocalHandle: the bridge makes one LocalHandle::send of exactly the message
\* that was encoded, to its own actor; the bytes UntypedHandle::send returns
\* decode to the MsgResult that send returned; and the actor runs for it what
\* it runs for a local send: handler once for a Task, handler_mut once for a
\* TaskMut, no handler for Ping and Stop.
C16_BridgeMatchesLocal ==
    \A r \in Reqs :
        LET s == breq[r].slot IN
        /\ breq[r].msg # NoMsg /\ ~Denied(r) => breq[r].fwd
        /\ breq[r].fwd =>
            /\ s \in Slots
            /\ breq[r].bytes = EncodeMsg(slots[s].msg)
            /\ slots[s].to = breq[r].to
            /\ \A q \in Reqs : breq[q].slot = s => q = r
            /\ breq[r].st = "filled" =>
                    /\ Returned(s)
                    /\ breq[r].val[1] = "Ok"
                    /\ DecodeResult(breq[r].val[2]) = slots[s].ret
            /\ breq[r].ret[1] = "Ok" => DecodeResult(breq[r].ret[2]) = slots[s].ret
            /\ InvokedCount(s, "handler") <=
                    (IF slots[s].msg[1] = "Task" THEN 1 ELSE 0)
            /\ InvokedCount(s, "handler_mut") <=
                    (IF slots[s].msg[1] = "TaskMut" THEN 1 ELSE 0)
            /\ slots[s].ret[1] = "Ok" /\ slots[s].msg[1] \in {"Task", "TaskMut"} =>
                    InvokedCount(s, "handler") + InvokedCount(s, "handler_mut") = 1

\* with allow_mut, a TaskMut sent as bytes ran handler_mut once, changed the
\* actor's state, and came back as the bytes of Ok(Reply::Task(1)), which is
\* what the LocalHandle::send made for it returned
C16_Witness ==
    \E r \in Reqs :
        /\ breq[r].bytes = EncodeMsg(TaskMut(1))
        /\ breq[r].ret = BOk(EncodeResult(OkTask(1)))
        /\ slots[breq[r].slot].ret = OkTask(1)
        /\ InvokedCount(breq[r].slot, "handler_mut") = 1
        /\ actor[1].state = 1

Undecodable(r) == breq[r].st # "unused" /\ DecodeMsg(breq[r].bytes) = NoMsg

\* the worker of bridge b takes a request that does not decode
UndecodableStep(b) ==
    /\ bridge[b].pc = "recv"
    /\ bridge[b].mailbox # <<>>
    /\ Undecodable(Head(bridge[b].mailbox))
    /\ bridge'[b].mailbox = Tail(bridge[b].mailbox)

\* C32: a request whose bytes do not decode is never forwarded to the actor;
\* the bridge answers it with Err(Decode), which is what UntypedHandle::send
\* returns unless the bridge's worker had left its loop; taking such a
\* request leaves the actor, its mailbox and its senders untouched and the
\* bridge's worker in its receive loop with its mailbox open.
C32_DecodeFailureIsReported ==
    /\ [](\A r \in Reqs :
            Undecodable(r) =>
                /\ ~breq[r].fwd
                /\ breq[r].slot = 0
                /\ breq[r].msg = NoMsg
                /\ breq[r].val \in {NoBytes, BErr("Decode")}
                /\ breq[r].st = "filled" => breq[r].val = BErr("Decode")
                /\ breq[r].ret \in {NoBytes, BErr("Decode"), BErr("Send"),
                                    BErr("Recv")}
                /\ breq[r].ret \in {BErr("Send"), BErr("Recv")} =>
                        BridgeLeft(breq[r].to))
    /\ [][\A b \in Actors :
            UndecodableStep(b) =>
                /\ bridge'[b].pc = "recv"
                /\ ~bridge'[b].rxClosed
                /\ breq'[Head(bridge[b].mailbox)].val = BErr("Decode")
                /\ UNCHANGED localVars]_vars

\* the first request was garbage and came back as Err(Decode); the second,
\* a Task, was then served by the same bridge
C32_Witness ==
    /\ breq[1].bytes = Garbage
    /\ breq[1].ret = BErr("Decode")
    /\ breq[2].bytes = EncodeMsg(Task(1))
    /\ breq[2].fwd
    /\ breq[2].ret = BOk(EncodeResult(OkTask(1)))

\* the flags of the handle that attach registered under the peer id that
\* connection k addresses
AttachedOpts(k) ==
    {[mut |-> h.mut, stop |-> h.stop] : h \in AttachedUnder(conns[k].key)}

\* C33: the flags are part of each UntypedHandle value: a change of a flag
\* on the owner's handle leaves the peer table, the handles the connection
\* workers cloned and the flags of the requests already sent as they were;
\* a request that arrives through the router carries the flags the handle
\* had when it was attached under the address, whatever the owner's handle
\* says since, and the bridge admits or refuses it by those flags alone.
C33_FlagsArePerClone ==
    /\ [](\A k \in Reqs :
            breq[k].st # "unused" =>
                /\ AttachedOpts(k) = {RequestOpts(k)}
                /\ breq[k].fwd =>
                        validate(breq[k].mut, breq[k].stop, breq[k].msg)
                /\ breq[k].msg # NoMsg /\ ~breq[k].fwd =>
                        /\ ~validate(breq[k].mut, breq[k].stop, breq[k].msg)
                        /\ breq[k].st = "filled" =>
                                breq[k].val = BOk(EncodeResult(ErrNotAllowed)))
    /\ [][uhandle' # uhandle =>
            /\ router'.peers = router.peers
            /\ conns' = conns
            /\ \A k \in Reqs : RequestOpts(k)' = RequestOpts(k)]_vars

\* the handle was attached with the default flags; its owner then allowed
\* mutation on the clone kept, while a TaskMut sent to the address was
\* queued at the bridge; the client still got NotAllowed
C33_Witness ==
    \E k \in Reqs :
        /\ uhandle[1].mut
        /\ breq[k].toggled
        /\ ~breq[k].mut
        /\ breq[k].msg = TaskMut(1)
        /\ conns[k].result = ROk(ErrNotAllowed)

\* the worker of connection k was ended by the timeout while it waited for
\* the bridge, which had not answered
TimedOutAwaitingBridge(k) ==
    /\ conns[k].end = "timeout"
    /\ breq[k].rxDropped
    /\ breq[k].st = "open"

LiveAddrs == admin.addrs \ admin.revoked

\* C35: (as claimed) once the RouterHandle is dropped without a stop, the
\* control loop runs on, the net layer listens, and every attached address
\* is in the peer table.
C35_DroppedHandleKeepsRouter ==
    admin.pc = "dropped" =>
        /\ router.pc = "loop"
        /\ router.listening
        /\ \A key \in LiveAddrs : Lookup(key) # NoHandle

\* C35: what holds of a router whose handle was dropped: the peer table is
\* frozen; as long as accept() has not failed the loop runs, accepts what
\* connects and finds every attached address; the first failure of accept()
\* after the drop ends the loop, and nothing else does
C35_DroppedHandleUntilAcceptFails ==
    /\ [](admin.pc = "dropped" /\ ~router.acceptFailed =>
            /\ C35_DroppedHandleKeepsRouter
            /\ router.backlog # <<>> => ENABLED RouterAccept)
    /\ [](router.pc # "loop" => admin.pc = "dropped" /\ router.acceptFailed)
    /\ [][admin.pc = "dropped" =>
            /\ router'.peers = router.peers
            /\ admin' = admin]_vars
    /\ [][RecvBranchDead /\ ~router.acceptFailed /\ router'.acceptFailed =>
            router'.pc = "exiting"]_vars

\* the handle was dropped with an address attached; accept() failed, the
\* router's task ended, and a client of that address, still in the peer
\* table, could not connect
C35_RouterPanicked ==
    \E k \in Reqs :
        /\ admin.pc = "dropped"
        /\ router.pc = "done"
        /\ ~router.listening
        /\ conns[k].key \in LiveAddrs
        /\ Lookup(conns[k].key) # NoHandle
        /\ conns[k].result = RErr("Connect")

\* the control loop takes a Revoke from the control channel
RevokeStep ==
    /\ router.pc = "loop"
    /\ router.ctl # <<>>
    /\ cmds[NextCommand].kind = "Revoke"
    /\ router'.ctl = Tail(router.ctl)

\* a revoke of peer id key has been called
RevokeCalled(key) ==
    \E i \in Cmds : cmds[i].kind = "Revoke" /\ cmds[i].key = key

\* C36: a Revoke empties the table entry of its own peer id and no other,
\* and is answered with the address it came with; when the id is not in the
\* table the table is left as it was and the answer is the same; a request
\* to an address that no revoke named is never turned away as unknown,
\* whatever was revoked meanwhile, the other addresses of its bridge
\* included; and every revoke call returns Ok with its address.
C36_RevokeRemovesOneEntry ==
    /\ [][RevokeStep =>
            LET key == cmds[NextCommand].key IN
            /\ \A id \in DOMAIN router.peers :
                    router'.peers[id] =
                        IF id = key THEN NoHandle ELSE router.peers[id]
            /\ Lookup(key) = NoHandle => router'.peers = router.peers
            /\ cmds'[NextCommand].st = "filled"
            /\ cmds'[NextCommand].addr = key]_vars
    /\ [](\A k \in Reqs :
            conns[k].end = "unknown" => RevokeCalled(conns[k].key))
    /\ [](\A key \in PeerKeys : ~RevokeCalled(key) => Lookup(key) # NoHandle)
    /\ [](admin.failed = {})
    /\ [](\A i \in Cmds :
            cmds[i].kind = "Revoke" /\ cmds[i].st = "filled" =>
                cmds[i].addr = cmds[i].key)

\* one address was revoked twice and both calls returned it; a request to it
\* was dropped as unknown, and a later connection to the other address of
\* the same bridge was answered
C36_Witness ==
    \E key, other \in PeerKeys :
        /\ key # other
        /\ \A i \in Cmds : /\ cmds[i].kind = "Revoke"
                            /\ cmds[i].key = key
                            /\ cmds[i].st = "filled"
                            /\ cmds[i].addr = key
        /\ admin.pc = "idle"
        /\ Lookup(key) = NoHandle
        /\ Lookup(other) = DefaultHandle(1)
        /\ conns[1].key = key
        /\ conns[1].end = "unknown"
        /\ conns[2].key = other
        /\ conns[2].result = ROk(OkAccepted)

\* an address the router never gave out was revoked: the call returned it
\* and the table holds what it held
C36_WitnessForeign ==
    \E i \in Cmds :
        /\ cmds[i].kind = "Revoke"
        /\ cmds[i].key = UnknownKey
        /\ cmds[i].st = "filled"
        /\ cmds[i].addr = UnknownKey
        /\ \A key \in PeerKeys : Lookup(key) = DefaultHandle(1)

\* C37: a connection worker holds a read guard of the peer table only
\* between its reading of the peer id and the end of the lookup, never when
\* it reads the message or waits for the bridge; so a command at the head of
\* the control channel can be taken as soon as the lookups in progress are
\* over, and every attach, revoke and stop called is answered or, after a
\* stop, refused, although no handler ever returns.
C37_LockOnlyForLookup ==
    /\ [](\A k \in Reqs : k \in router.readers <=> conns[k].spc = "locked")
    /\ [](router.pc = "loop" /\ router.ctl # <<>> /\ router.readers = {} =>
            ENABLED RouterCommandNext)
    /\ [](\A a \in Actors : \A s \in actor[a].running : ~Returned(s))
    /\ \A i \in Cmds : (cmds[i].st = "open") ~> (cmds[i].st \in {"filled", "closed"})

\* a handler runs for a request and will not return, and the worker of that
\* request waits for the bridge; another worker holds the guard for its
\* lookup while a revoke waits at the head of the control channel
C37_Witness ==
    \E k, l \in Reqs, j \in Cmds :
        /\ conns[k].spc = "bawait"
        /\ breq[k].fwd
        /\ breq[k].slot \in actor[1].running
        /\ conns[l].spc = "locked"
        /\ router.readers = {l}
        /\ router.ctl # <<>>
        /\ NextCommand = j
        /\ cmds[j].kind = "Revoke" /\ cmds[j].st = "open"

\* the slot of sender c's current call, if it has one
CurrentSlots == {sender[c].slot : c \in {d \in Clients : sender[d].slot # 0}}

\* C38: every LocalHandle::send has a oneshot of its own: no two callers
\* wait on the same slot, a slot is filled at most once and only after the
\* worker took its message, the value in it is the reply to the message that
\* came with it, and a call returns at most once, with that value or with a
\* channel error, whatever the interleaving of the senders.
C38_OwnReplySlot ==
    /\ [](\A c, d \in Clients :
            c # d /\ sender[c].slot # 0 => sender[c].slot # sender[d].slot)
    /\ [](\A s \in Slots :
            /\ slots[s].st = "filled" =>
                  /\ slots[s].val = EchoReply(slots[s].msg)
                  /\ Cardinality({i \in 1..Len(actor[1].processed) :
                                    actor[1].processed[i] = s}) = 1
            /\ Returned(s) =>
                  \/ slots[s].ret \in {ErrSend, ErrRecv}
                  \/ slots[s].st = "filled" /\ slots[s].ret = slots[s].val)
    /\ [][\A s \in Slots :
            /\ slots[s].st = "filled" =>
                  slots'[s].st = "filled" /\ slots'[s].val = slots[s].val
            /\ Returned(s) => slots'[s].ret = slots[s].ret /\ s \notin CurrentSlots
            /\ slots[s].st # "unused" => slots'[s].msg = slots[s].msg]_vars

\* two senders wait at the same time, each on the slot of its own call, and
\* each slot holds the reply to the message sent with it
C38_Witness ==
    \E c, d \in Clients :
        /\ c # d
        /\ sender[c] = [pc |-> "awaiting", slot |-> 1]
        /\ sender[d] = [pc |-> "awaiting", slot |-> 2]
        /\ slots[1].msg = Task(1) /\ slots[2].msg = TaskMut(1)
        /\ slots[1].st = "filled" /\ slots[1].val = OkTask(1)
        /\ slots[2].st = "filled" /\ slots[2].val = ErrTask(1)

\* position of slot s in the order in which actor a's mailbox was entered
EnqPos(a, s) ==
    CHOOSE i \in 0..Len(actor[a].enqOrder) :
        IF \E j \in 1..Len(actor[a].enqOrder) : actor[a].enqOrder[j] = s
        THEN i > 0 /\ actor[a].enqOrder[i] = s
        ELSE i = 0

\* the requests bridge b forwarded whose inner_handle.send has not returned
InFlight(b) ==
    {r \in Reqs : breq[r].to = b /\ breq[r].fwd /\ ~Returned(breq[r].slot)}

\* C39: the bridge has at most one forwarded request whose local send has
\* not returned, and it is the one it holds; it takes a request only from
\* the head of its mailbox and only when it holds none, requests enter the
\* mailbox at the tail, and the actor's mailbox receives the forwarded
\* messages in the order in which the bridge took them.
C39_BridgeOneAtATime ==
    /\ [](\A b \in Actors :
            /\ InFlight(b) \subseteq {bridge[b].cur}
            /\ (bridge[b].pc = "forwarding") <=> (bridge[b].cur # 0)
            /\ \A r \in Reqs : InMailbox(bridge[b].mailbox, r) => ~breq[r].fwd
            /\ \A r, q \in Reqs :
                  /\ breq[r].to = b /\ breq[q].to = b
                  /\ breq[r].fwd /\ breq[q].fwd
                  /\ EnqPos(b, breq[r].slot) > 0
                  /\ EnqPos(b, breq[q].slot) > 0
                  /\ breq[r].slot < breq[q].slot
                  => EnqPos(b, breq[r].slot) < EnqPos(b, breq[q].slot))
    /\ [][\A b \in Actors :
            /\ bridge'[b].mailbox # bridge[b].mailbox =>
                  \/ /\ bridge[b].mailbox # <<>>
                     /\ bridge'[b].mailbox = Tail(bridge[b].mailbox)
                  \/ \E r \in Reqs : bridge'[b].mailbox = Append(bridge[b].mailbox, r)
                  \/ bridge'[b].pc = "done" /\ bridge'[b].mailbox = <<>>
            /\ \A r \in Reqs :
                  breq[r].to = b /\ breq'[r].fwd /\ ~breq[r].fwd =>
                     /\ bridge[b].pc = "recv"
                     /\ InFlight(b) = {}
                     /\ r = Head(bridge[b].mailbox)
                     /\ bridge'[b].cur = r
                     /\ \A q \in Reqs : breq[q].to = b /\ breq[q].fwd =>
                            breq[q].slot < breq'[r].slot]_vars

\* a request waits in the bridge's mailbox while the handler of the request
\* that came before it runs
C39_Witness ==
    \E r, q \in Reqs :
        /\ bridge[1].pc = "forwarding"
        /\ bridge[1].cur = r
        /\ breq[r].slot \in actor[1].running
        /\ bridge[1].mailbox = <<q>>
        /\ DecodeMsg(breq[q].bytes) = Task(1)
        /\ breq[q].st = "open"

\* C40: once no UntypedHandle of a bridge is left, the bridge's worker
\* leaves its loop, and only on an empty mailbox: every request that was
\* queued and admitted has been forwarded by then; on its end the worker has
\* given up its LocalHandle, and when no user holds a LocalHandle either the
\* actor's worker ends as well.
C40_BridgeEndsWithLastHandle ==
    /\ [](\A b \in Actors :
            bridge[b].pc \in {"exiting", "done"} =>
                /\ bridge[b].txDropped
                /\ bridge[b].pc = "done" => BridgeSender(b) \notin actor[b].handles
                /\ \A r \in Reqs :
                      /\ breq[r].to = b
                      /\ DecodeMsg(breq[r].bytes) \in {Task(1), Ping}
                      => breq[r].fwd)
    /\ [][\A b \in Actors :
            bridge[b].pc = "recv" /\ bridge'[b].pc = "exiting" =>
                bridge[b].mailbox = <<>>]_vars
    /\ \A b \in Actors : bridge[b].txDropped ~> (bridge[b].pc = "done")
    /\ \A b \in Actors :
          (bridge[b].txDropped /\ actor[b].handles \subseteq {BridgeSender(b)})
              ~> (actor[b].wpc = "done" /\ actor[b].handles = {})

\* both workers have ended after the handles were dropped; a request whose
\* caller had stopped waiting was still forwarded and handled
C40_Witness ==
    \E r \in Reqs :
        /\ bridge[1].pc = "done"
        /\ bridge[1].txDropped
        /\ actor[1].wpc = "done"
        /\ sender[1].pc = "dropped"
        /\ breq[r].rxDropped
        /\ breq[r].fwd
        /\ slots[breq[r].slot].hret = HOk(1)

\* sender c waits for a permit: its send has begun and the mailbox of its
\* actor is open and full
WaitsForPermit(c) ==
    /\ sender[c].pc = "sending"
    /\ ~actor[TargetOf(c)].rxClosed
    /\ Len(actor[TargetOf(c)].mailbox) = MailboxCap

\* C31: a mailbox never holds more than its capacity; while it is full and
\* open, a send that has begun neither puts its message in nor returns: the
\* caller stays in the call with nothing returned, and the call goes on once
\* the worker has taken a message out: its message enters the mailbox,
\* unless the worker has closed the mailbox by then.
C31_FullMailboxBlocksSend ==
    /\ [](\A a \in Actors : Len(actor[a].mailbox) <= MailboxCap)
    /\ [](\A c \in Clients :
            WaitsForPermit(c) =>
                /\ ~InMailbox(actor[TargetOf(c)].enqOrder, sender[c].slot)
                /\ slots[sender[c].slot].st = "open"
                /\ ~Returned(sender[c].slot))
    /\ [][\A c \in Clients :
            WaitsForPermit(c) =>
                \/ WaitsForPermit(c)'
                \/ /\ sender'[c] = sender[c]
                   /\ \/ Len(actor'[TargetOf(c)].mailbox) = MailboxCap - 1
                      \/ actor'[TargetOf(c)].rxClosed]_vars
    /\ \A c \in Clients :
          WaitsForPermit(c) ~>
              \/ sender[c].pc = "awaiting" /\ ~WaitsForPermit(c)
              \/ actor[TargetOf(c)].rxClosed

\* the mailbox is full of messages the worker has not taken yet, and a
\* caller whose send has begun waits with the message of the last send of
\* the burst
C31_Witness ==
    \E c \in Clients :
        /\ WaitsForPermit(c)
        /\ sender[c].slot = BurstSends
        /\ slots[BurstSends].msg = Task(1)
        /\ actor[1].wpc = "recv"
        /\ actor[1].processed = <<>>

====
